---------------------------- MODULE Spec2Model ----------------------------
(***************************************************************************)
(* MessageTorch (plan44/messagetorch), final revision of the firmware      *)
(* (src/unnamed/part_000, lines 2075-3500): the p44_ws2812 LED driver, the *)
(* scrolling text layer, the torch energy simulation and the main loop.    *)
(*                                                                         *)
(* C integer types are kept at their width: byte values are reduced        *)
(* modulo 256 and uint16_t values modulo 65536 where the code stores them. *)
(***************************************************************************)
EXTENDS Integers, Sequences, FiniteSets

VARIABLES
  leds,               \* the p44_ws2812 object (all fields but the pixel buffer)
  pixelBuffer,        \* leds.pixelBufferP: 0..numPixels-1 -> RGBPixel
  spiOut,             \* what the last show() did on the wire, in order
  irqEnabled,         \* the CPU's interrupt mask (TRUE: interrupts enabled)
  ledsPerLevel,       \* const uint16_t ledsPerLevel (compile-time configuration)
  levels,             \* const uint16_t levels (compile-time configuration)
  mirrorText,         \* const bool mirrorText (compile-time configuration)
  params,             \* the global parameters handleParams sets
  text,               \* String text: the decoded message, a sequence of bytes
  textPixelOffset,    \* int textPixelOffset
  textCycleCount,     \* int textCycleCount
  repeatCount,        \* int repeatCount
  textLayer,          \* byte textLayer[textPixels]
  currentEnergy,      \* byte currentEnergy[numLeds]
  nextEnergy,         \* byte nextEnergy[numLeds]
  energyMode,         \* byte energyMode[numLeds]
  cnt,                \* byte cnt: the frame counter of the colour cycle
  halted,             \* TRUE once a division by zero has trapped
  lastOp,             \* the operation that led to this state, with its arguments
  lastMessage,        \* the argument of the last newMessage call
  ticksSinceMessage,  \* loop() calls completed since the last newMessage call
                      \* (-1: newMessage was never called)
  ticks,              \* loop() calls completed since setup()
  calls               \* cloud function calls (handleParams, newMessage) handled

vars ==
  << leds, pixelBuffer, spiOut, irqEnabled, ledsPerLevel, levels, mirrorText,
     params, text, textPixelOffset, textCycleCount, repeatCount, textLayer,
     currentEnergy, nextEnergy, energyMode, cnt, halted, lastOp, lastMessage,
     ticksSinceMessage, ticks, calls >>

driverVars == <<leds, pixelBuffer, spiOut, irqEnabled>>

configVars == <<ledsPerLevel, levels, mirrorText>>

textVars == <<text, textPixelOffset, textCycleCount, repeatCount, textLayer>>

energyVars == <<currentEnergy, nextEnergy, energyMode>>

-----------------------------------------------------------------------------
(* Integer helpers: C arithmetic *)

U8(v) == v % 256

U16(v) == v % 65536

Abs(a) == IF a < 0 THEN -a ELSE a

\* C's integer division, which truncates toward zero (b # 0)
CDiv(a, b) ==
  IF (a < 0) = (b < 0) THEN Abs(a) \div Abs(b) ELSE -(Abs(a) \div Abs(b))

Min(a, b) == IF a < b THEN a ELSE b

\* aValue >> n for a non-negative aValue
Shr(aValue, n) == aValue \div (2 ^ n)

-----------------------------------------------------------------------------
(* p44_ws2812: construction and geometry *)

LedTypes == {"ws2811_brg", "ws2812"}

P44Construct(aLedType, aNumLeds, aPixelsPerRow, aXReversed, aAlternating, aSwapXY, aYReversed, aLedsPerPixel) ==
  LET lpp == IF aLedsPerPixel < 1 THEN 1 ELSE aLedsPerPixel
      np  == aNumLeds \div lpp
  IN  [ ledType      |-> aLedType,
        numLeds      |-> aNumLeds,
        ledsPerPixel |-> lpp,
        numPixels    |-> np,
        pixelsPerRow |-> IF aPixelsPerRow = 0 THEN np ELSE aPixelsPerRow,
        numRows      |-> IF aPixelsPerRow = 0 THEN 1
                         ELSE U16(CDiv(np - 1, aPixelsPerRow) + 1),
        xReversed    |-> aXReversed,
        alternating  |-> aAlternating,
        swapXY       |-> aSwapXY,
        yReversed    |-> aYReversed ]

\* memset(pixelBufferP, 0, ...): all LEDs off
ClearedBuffer(l) == [i \in 0 .. l.numPixels - 1 |-> [red |-> 0, green |-> 0, blue |-> 0]]

getNumPixels(l) == l.numPixels

getSizeX(l) == IF l.swapXY THEN l.numRows ELSE l.pixelsPerRow

getSizeY(l) == IF l.swapXY THEN l.pixelsPerRow ELSE l.numRows

ledIndexFromXY_noMinusOne(l, aX, aY) ==
  LET x1 == IF l.swapXY THEN aY ELSE aX
      y1 == IF l.swapXY THEN aX ELSE aY
      y2 == IF l.yReversed THEN U16(l.numRows - 1 - y1) ELSE y1
      base == U16(y2 * l.pixelsPerRow)
      reversed == IF l.alternating /\ (y2 % 2 = 1) THEN ~l.xReversed ELSE l.xReversed
  IN  IF reversed THEN U16(base + (l.pixelsPerRow - x1)) ELSE U16(base + x1)

ledIndexFromXY(l, aX, aY) ==
  LET x1 == IF l.swapXY THEN aY ELSE aX
      y1 == IF l.swapXY THEN aX ELSE aY
      y2 == IF l.yReversed THEN U16(l.numRows - 1 - y1) ELSE y1
      base == U16(y2 * l.pixelsPerRow)
      reversed == IF l.alternating /\ (y2 % 2 = 1) THEN ~l.xReversed ELSE l.xReversed
  IN  IF reversed THEN U16(base + (l.pixelsPerRow - 1 - x1)) ELSE U16(base + x1)

-----------------------------------------------------------------------------
(* p44_ws2812: writing pixels *)

\* the buffer after setColorXY(aX, aY, aRed, aGreen, aBlue)
setColorXY(l, buf, aX, aY, aRed, aGreen, aBlue) ==
  LET ledindex == ledIndexFromXY(l, aX, aY)
  IN  IF ledindex >= l.numPixels THEN buf
      ELSE [buf EXCEPT ![ledindex] =
              [red |-> Shr(aRed, 3), green |-> Shr(aGreen, 3), blue |-> Shr(aBlue, 3)]]

\* setColorDimmedXY dimming the packed channel instead of the channel
setColorDimmedXY_dimsStored(l, buf, aX, aY, aRed, aGreen, aBlue, aBrightness) ==
  setColorXY(l, buf, aX, aY,
             U8(Shr(Shr(aRed, 3) * aBrightness, 8)),
             U8(Shr(Shr(aGreen, 3) * aBrightness, 8)),
             U8(Shr(Shr(aBlue, 3) * aBrightness, 8)))

\* the buffer after setColorDimmedXY(aX, aY, aRed, aGreen, aBlue, aBrightness)
setColorDimmedXY(l, buf, aX, aY, aRed, aGreen, aBlue, aBrightness) ==
  setColorXY(l, buf, aX, aY,
             U8(Shr(aRed * aBrightness, 8)),
             U8(Shr(aGreen * aBrightness, 8)),
             U8(Shr(aBlue * aBrightness, 8)))

\* void getColorXY(uint16_t aX, uint16_t aY, byte &aRed, byte &aGreen, byte
\* &aBlue): the three outputs, out being what they held before the call
getColorXY(l, buf, aX, aY, out) ==
  LET ledindex == ledIndexFromXY(l, aX, aY)
  IN  IF ledindex >= l.numPixels THEN out
      ELSE << U8(buf[ledindex].red * 8), U8(buf[ledindex].green * 8),
              U8(buf[ledindex].blue * 8) >>

-----------------------------------------------------------------------------
(* p44_ws2812: show() *)

\* static const uint8_t pwmTable[32]; pwmTable[v] of the code is PwmTableSeq[v + 1]
PwmTableSeq ==
  << 0, 1, 1, 2, 3, 4, 6, 7, 9, 10, 13, 15, 18, 21, 24, 28, 33, 38, 44, 50, 58,
     67, 77, 88, 101, 115, 132, 150, 172, 196, 224, 255 >>

pwmTable(v) == PwmTableSeq[v + 1]

\* Entries of spiOut: a byte 0..255 is SPI.transfer(byte); the two negative
\* numbers are the calls __disable_irq() and __enable_irq().
DisableIrq == -1

EnableIrq == -2

\* the bit loop sending the least significant bit first (b & 0x01, b >> 1)
RECURSIVE SendBits_lsbFirst(_, _, _, _)
SendBits_lsbFirst(b, j, aLong, aShort) ==
  IF j >= 8 THEN <<>>
  ELSE <<IF b % 2 = 1 THEN aLong ELSE aShort>>
       \o SendBits_lsbFirst(b \div 2, j + 1, aLong, aShort)

\* for (byte j=0; j<8; j++) { SPI.transfer(b & 0x80 ? aLong : aShort); b = b << 1; }
RECURSIVE SendBits(_, _, _, _)
SendBits(b, j, aLong, aShort) ==
  IF j >= 8 THEN <<>>
  ELSE <<IF (b \div 128) % 2 = 1 THEN aLong ELSE aShort>>
       \o SendBits(U8(b * 2), j + 1, aLong, aShort)

\* the eight pulses of each byte value on a ws2811_brg chain
BrgPulses == [b \in 0 .. 255 |-> SendBits(b, 0, 124, 64)]

\* the eight pulses of each byte value on a ws2812 chain
GrbPulses == [b \in 0 .. 255 |-> SendBits(b, 0, 126, 112)]

\* one LED of a ws2811_brg chain: blue, red, green
SendLedBrg(pix) ==
  BrgPulses[pwmTable(pix.blue)] \o BrgPulses[pwmTable(pix.red)]
  \o BrgPulses[pwmTable(pix.green)]

\* one LED of a ws2812 chain: green, red, blue
SendLedGrb(pix) ==
  GrbPulses[pwmTable(pix.green)] \o GrbPulses[pwmTable(pix.red)]
  \o GrbPulses[pwmTable(pix.blue)]

\* for (uint16_t r=0; r<ledsPerPixel; r++) { ... } of the ws2811_brg case
RECURSIVE RepeatBrg(_, _, _)
RepeatBrg(l, pix, r) ==
  IF r >= l.ledsPerPixel THEN <<>> ELSE SendLedBrg(pix) \o RepeatBrg(l, pix, r + 1)

\* for (uint16_t r=0; r<ledsPerPixel; r++) { ... } of the ws2812 case
RECURSIVE RepeatGrb(_, _, _)
RepeatGrb(l, pix, r) ==
  IF r >= l.ledsPerPixel THEN <<>> ELSE SendLedGrb(pix) \o RepeatGrb(l, pix, r + 1)

\* case ws2811_brg: for (uint16_t i=0; i<numPixels; i++) { ... }, the bytes the
\* pixels lo .. hi-1 add to out. Here and in the loops below the range is run
\* in two halves, the first half's result being computed before the second
\* half starts, which keeps the evaluation shallow.
RECURSIVE CaseBrg(_, _, _, _, _)
CaseBrg(l, buf, out, lo, hi) ==
  IF hi <= lo THEN out
  ELSE IF hi = lo + 1 THEN out \o RepeatBrg(l, buf[lo], 0)
  ELSE LET mid == (lo + hi) \div 2
       IN  CHOOSE r \in {CaseBrg(l, buf, o, mid, hi) :
                         o \in {CaseBrg(l, buf, out, lo, mid)}} : TRUE

\* case ws2812: for (uint16_t i=0; i<numPixels; i++) { ... }, the bytes the
\* pixels lo .. hi-1 add to out
RECURSIVE CaseGrb(_, _, _, _, _)
CaseGrb(l, buf, out, lo, hi) ==
  IF hi <= lo THEN out
  ELSE IF hi = lo + 1 THEN out \o RepeatGrb(l, buf[lo], 0)
  ELSE LET mid == (lo + hi) \div 2
       IN  CHOOSE r \in {CaseGrb(l, buf, o, mid, hi) :
                         o \in {CaseGrb(l, buf, out, lo, mid)}} : TRUE

\* switch(ledType): the ws2811_brg case has no break and falls through into
\* the ws2812 case
ShowSwitch(l, buf) ==
  IF l.ledType = "ws2811_brg"
  THEN CaseBrg(l, buf, <<>>, 0, l.numPixels) \o CaseGrb(l, buf, <<>>, 0, l.numPixels)
  ELSE CaseGrb(l, buf, <<>>, 0, l.numPixels)

show_noDisable(l, buf) == ShowSwitch(l, buf) \o <<EnableIrq>>

\* everything one call of show() does on the wire and to the interrupt mask
show(l, buf) == <<DisableIrq>> \o ShowSwitch(l, buf) \o <<EnableIrq>>

\* the interrupt mask after a sequence of events, starting from aEnabled: the
\* last __enable_irq() or __disable_irq() among them decides
IrqAfter(events, aEnabled) ==
  LET marks == {i \in 1 .. Len(events) : events[i] \in {EnableIrq, DisableIrq}}
  IN  IF marks = {} THEN aEnabled
      ELSE events[CHOOSE i \in marks : \A j \in marks : j <= i] = EnableIrq

-----------------------------------------------------------------------------
(* Utilities *)

\* inline void reduce(byte &aByte, byte aAmount, byte aMin = 0); the amount is
\* converted to byte by the call
reduce(aByte, aAmount, aMin) ==
  LET r == aByte - U8(aAmount)
  IN  IF r < aMin THEN aMin ELSE r

\* the sum stored without the cut to aMax
increase_noMax(aByte, aAmount, aMax) == U8(aByte + U8(aAmount))

\* inline void increase(byte &aByte, byte aAmount, byte aMax = 255); the amount
\* is converted to byte by the call
increase(aByte, aAmount, aMax) ==
  LET r == aByte + U8(aAmount)
  IN  IF r > aMax THEN aMax ELSE r

\* void wheel(byte WheelPos, byte &red, byte &green, byte &blue)
wheel(WheelPos) ==
  IF WheelPos < 85
  THEN [r |-> U8(WheelPos * 3), g |-> U8(255 - WheelPos * 3), b |-> 0]
  ELSE IF WheelPos < 170
       THEN [r |-> U8(255 - (WheelPos - 85) * 3), g |-> 0, b |-> U8((WheelPos - 85) * 3)]
       ELSE [r |-> 0, g |-> U8((WheelPos - 170) * 3), b |-> U8(255 - (WheelPos - 170) * 3)]

\* int hexToInt(char aHex), char being unsigned on the ARM target
hexToInt(aHex) ==
  IF aHex < 48 THEN 0
  ELSE LET h1 == U8(aHex - 48)
           h2 == IF h1 > 9 THEN U8(h1 - 7) ELSE h1
       IN  IF h2 > 15 THEN 0 ELSE h2

-----------------------------------------------------------------------------
(* The 7 pixel high dot matrix font *)

numGlyphs == 102

rowsPerGlyph == 7

glyphSpacing == 2

\* static const glyph_t fontGlyphs[numGlyphs]; fontGlyphs[g] of the code is
\* FontGlyphSeq[g + 1], and cols[c] of a glyph is cols[c + 1]
FontGlyphSeq ==
  <<
    [width |-> 5, cols |-> <<0, 0, 0, 0, 0>>],
    [width |-> 1, cols |-> <<95>>],
    [width |-> 3, cols |-> <<3, 0, 3>>],
    [width |-> 5, cols |-> <<40, 124, 40, 124, 40>>],
    [width |-> 5, cols |-> <<36, 42, 127, 42, 18>>],
    [width |-> 5, cols |-> <<76, 44, 16, 104, 100>>],
    [width |-> 5, cols |-> <<48, 78, 85, 34, 64>>],
    [width |-> 1, cols |-> <<1>>],
    [width |-> 3, cols |-> <<28, 34, 65>>],
    [width |-> 3, cols |-> <<65, 34, 28>>],
    [width |-> 5, cols |-> <<1, 3, 1, 3, 1>>],
    [width |-> 5, cols |-> <<8, 8, 62, 8, 8>>],
    [width |-> 2, cols |-> <<80, 48>>],
    [width |-> 5, cols |-> <<8, 8, 8, 8, 8>>],
    [width |-> 2, cols |-> <<96, 96>>],
    [width |-> 5, cols |-> <<64, 32, 16, 8, 4>>],
    [width |-> 5, cols |-> <<62, 81, 73, 69, 62>>],
    [width |-> 3, cols |-> <<66, 127, 64>>],
    [width |-> 5, cols |-> <<98, 81, 73, 73, 70>>],
    [width |-> 5, cols |-> <<34, 65, 73, 73, 54>>],
    [width |-> 5, cols |-> <<12, 10, 9, 127, 8>>],
    [width |-> 5, cols |-> <<79, 73, 73, 73, 49>>],
    [width |-> 5, cols |-> <<62, 73, 73, 73, 50>>],
    [width |-> 5, cols |-> <<3, 1, 113, 9, 7>>],
    [width |-> 5, cols |-> <<54, 73, 73, 73, 54>>],
    [width |-> 5, cols |-> <<38, 73, 73, 73, 62>>],
    [width |-> 2, cols |-> <<102, 102>>],
    [width |-> 2, cols |-> <<86, 54>>],
    [width |-> 4, cols |-> <<8, 20, 34, 65>>],
    [width |-> 4, cols |-> <<36, 36, 36, 36>>],
    [width |-> 4, cols |-> <<65, 34, 20, 8>>],
    [width |-> 5, cols |-> <<2, 1, 89, 9, 6>>],
    [width |-> 5, cols |-> <<62, 65, 93, 85, 94>>],
    [width |-> 5, cols |-> <<124, 10, 9, 10, 124>>],
    [width |-> 5, cols |-> <<127, 73, 73, 73, 54>>],
    [width |-> 5, cols |-> <<62, 65, 65, 65, 34>>],
    [width |-> 5, cols |-> <<127, 65, 65, 34, 28>>],
    [width |-> 5, cols |-> <<127, 73, 73, 65, 65>>],
    [width |-> 5, cols |-> <<127, 9, 9, 1, 1>>],
    [width |-> 5, cols |-> <<62, 65, 73, 73, 122>>],
    [width |-> 5, cols |-> <<127, 8, 8, 8, 127>>],
    [width |-> 3, cols |-> <<65, 127, 65>>],
    [width |-> 5, cols |-> <<48, 64, 64, 64, 63>>],
    [width |-> 5, cols |-> <<127, 8, 12, 18, 97>>],
    [width |-> 5, cols |-> <<127, 64, 64, 64, 64>>],
    [width |-> 7, cols |-> <<127, 2, 4, 12, 4, 2, 127>>],
    [width |-> 5, cols |-> <<127, 2, 4, 8, 127>>],
    [width |-> 5, cols |-> <<62, 65, 65, 65, 62>>],
    [width |-> 5, cols |-> <<127, 9, 9, 9, 6>>],
    [width |-> 5, cols |-> <<62, 65, 81, 97, 126>>],
    [width |-> 5, cols |-> <<127, 9, 9, 9, 118>>],
    [width |-> 5, cols |-> <<38, 73, 73, 73, 50>>],
    [width |-> 5, cols |-> <<1, 1, 127, 1, 1>>],
    [width |-> 5, cols |-> <<63, 64, 64, 64, 63>>],
    [width |-> 5, cols |-> <<31, 32, 64, 32, 31>>],
    [width |-> 5, cols |-> <<127, 64, 56, 64, 127>>],
    [width |-> 5, cols |-> <<99, 20, 8, 20, 99>>],
    [width |-> 5, cols |-> <<3, 4, 120, 4, 3>>],
    [width |-> 5, cols |-> <<97, 81, 73, 69, 67>>],
    [width |-> 3, cols |-> <<127, 65, 65>>],
    [width |-> 5, cols |-> <<4, 8, 16, 32, 64>>],
    [width |-> 3, cols |-> <<65, 65, 127>>],
    [width |-> 4, cols |-> <<4, 2, 1, 2>>],
    [width |-> 5, cols |-> <<64, 64, 64, 64, 64>>],
    [width |-> 2, cols |-> <<1, 2>>],
    [width |-> 5, cols |-> <<32, 84, 84, 84, 120>>],
    [width |-> 5, cols |-> <<127, 68, 68, 68, 56>>],
    [width |-> 5, cols |-> <<56, 68, 68, 68, 8>>],
    [width |-> 5, cols |-> <<56, 68, 68, 68, 127>>],
    [width |-> 5, cols |-> <<56, 84, 84, 84, 24>>],
    [width |-> 5, cols |-> <<8, 126, 9, 9, 2>>],
    [width |-> 5, cols |-> <<72, 84, 84, 84, 56>>],
    [width |-> 5, cols |-> <<127, 8, 8, 8, 112>>],
    [width |-> 3, cols |-> <<72, 122, 64>>],
    [width |-> 5, cols |-> <<32, 64, 64, 72, 58>>],
    [width |-> 4, cols |-> <<127, 16, 40, 68>>],
    [width |-> 3, cols |-> <<63, 64, 64>>],
    [width |-> 7, cols |-> <<124, 4, 4, 56, 4, 4, 120>>],
    [width |-> 5, cols |-> <<124, 4, 4, 4, 120>>],
    [width |-> 5, cols |-> <<56, 68, 68, 68, 56>>],
    [width |-> 5, cols |-> <<124, 20, 20, 20, 8>>],
    [width |-> 5, cols |-> <<8, 20, 20, 124, 64>>],
    [width |-> 5, cols |-> <<124, 4, 4, 4, 8>>],
    [width |-> 5, cols |-> <<72, 84, 84, 84, 36>>],
    [width |-> 5, cols |-> <<4, 4, 127, 68, 68>>],
    [width |-> 5, cols |-> <<60, 64, 64, 64, 124>>],
    [width |-> 5, cols |-> <<28, 32, 64, 32, 28>>],
    [width |-> 7, cols |-> <<124, 64, 64, 56, 64, 64, 124>>],
    [width |-> 5, cols |-> <<68, 40, 16, 40, 68>>],
    [width |-> 5, cols |-> <<12, 80, 80, 80, 60>>],
    [width |-> 5, cols |-> <<68, 100, 84, 76, 68>>],
    [width |-> 3, cols |-> <<8, 54, 65>>],
    [width |-> 1, cols |-> <<127>>],
    [width |-> 3, cols |-> <<65, 54, 8>>],
    [width |-> 4, cols |-> <<4, 2, 4, 8>>],
    [width |-> 5, cols |-> <<127, 65, 65, 65, 127>>],
    [width |-> 5, cols |-> <<125, 10, 9, 10, 125>>],
    [width |-> 5, cols |-> <<63, 65, 65, 65, 63>>],
    [width |-> 5, cols |-> <<61, 64, 64, 64, 61>>],
    [width |-> 5, cols |-> <<32, 85, 84, 85, 120>>],
    [width |-> 5, cols |-> <<56, 69, 68, 69, 56>>],
    [width |-> 5, cols |-> <<60, 65, 64, 65, 124>>]
  >>

fontGlyphs(g) == FontGlyphSeq[g + 1]

\* int glyphIndexForChar(const char aChar)
glyphIndexForChar(aChar) ==
  LET i == aChar - 32
  IN  IF i < 0 \/ i >= numGlyphs THEN 95 ELSE i

-----------------------------------------------------------------------------
(* Global parameters and handleParams *)

mode_off == 0

mode_torch == 1

mode_colorcycle == 2

mode_lamp == 3

mode_testpattern == 4

\* the initial values of the global parameters
DefaultParams ==
  [ mode |-> mode_torch, brightness |-> 255, fade_base |-> 140,
    text_intensity |-> 255, cycles_per_px |-> 5, text_repeats |-> 15,
    fade_per_repeat |-> 15, text_base_line |-> 8,
    red_text |-> 0, green_text |-> 255, blue_text |-> 180,
    clock_interval |-> 0, clock_zone |-> 2, clock_fmt |-> "%k:%M",
    cycle_wait |-> 1,
    flame_min |-> 100, flame_max |-> 220,
    random_spark_probability |-> 2, spark_min |-> 200, spark_max |-> 255,
    spark_tfr |-> 40, spark_cap |-> 200,
    up_rad |-> 40, side_rad |-> 35, heat_cap |-> 0,
    red_bg |-> 0, green_bg |-> 0, blue_bg |-> 0,
    red_bias |-> 10, green_bias |-> 0, blue_bias |-> 0,
    red_energy |-> 180, green_energy |-> 145, blue_energy |-> 0,
    upside_down |-> 0,
    lamp_red |-> 220, lamp_green |-> 220, lamp_blue |-> 200 ]

\* the parameters declared byte
ByteParams ==
  { "mode", "fade_base", "red_text", "green_text", "blue_text",
    "flame_min", "flame_max", "random_spark_probability", "spark_min", "spark_max",
    "spark_tfr", "red_bg", "green_bg", "blue_bg", "red_bias", "green_bias",
    "blue_bias", "upside_down", "lamp_red", "lamp_green", "lamp_blue" }

\* the parameters declared uint16_t
Uint16Params == { "cycle_wait", "spark_cap", "up_rad", "side_rad", "heat_cap" }

\* the parameters declared int
IntParams ==
  { "brightness", "text_intensity", "cycles_per_px", "text_repeats",
    "fade_per_repeat", "text_base_line", "clock_interval", "clock_zone",
    "red_energy", "green_energy", "blue_energy" }

\* the keys handleParams recognizes (NO_CHEERLIGHT is 1: no cheerlight keys)
RecognizedKeys ==
  (ByteParams \ {"random_spark_probability"}) \cup (Uint16Params \ {"cycle_wait"})
  \cup IntParams \cup {"wait", "spark_prob", "clock_fmt"}

\* the global a recognized key names
KeyParam(key) ==
  IF key = "wait" THEN "cycle_wait"
  ELSE IF key = "spark_prob" THEN "random_spark_probability"
  ELSE key

\* the assignment <global> = val, val being value.toInt(), with the conversion
\* to the global's type
StoreParam(p, name, val) ==
  IF name \in ByteParams THEN [p EXCEPT ![name] = U8(val)]
  ELSE IF name \in Uint16Params THEN [p EXCEPT ![name] = U16(val)]
  ELSE [p EXCEPT ![name] = val]

\* One pair of the command string: a key, whether an '=' follows it, the text
\* after the '=' and that text's toInt().
Pair(key, val) == [key |-> key, eq |-> TRUE, val |-> val, str |-> ""]

\* clock_fmt=<format>: toInt() of a format is 0
FmtPair(fmt) == [key |-> "clock_fmt", eq |-> TRUE, val |-> 0, str |-> fmt]

\* a piece between commas that holds no '='
NoEq(word) == [key |-> word, eq |-> FALSE, val |-> 0, str |-> ""]

\* the chain of handleParams without the resetEnergy() of spark_prob
ApplyPair_noReset(st, item) ==
  IF item.key \notin RecognizedKeys THEN st
  ELSE IF item.key = "clock_fmt" THEN [st EXCEPT !.p.clock_fmt = item.str]
  ELSE [st EXCEPT !.p = StoreParam(st.p, KeyParam(item.key), item.val)]

\* the if / else if chain of handleParams for one key and value; st is
\* [p: the parameters, reset: whether resetEnergy() was called]
ApplyPair(st, item) ==
  IF item.key \notin RecognizedKeys THEN st
  ELSE IF item.key = "clock_fmt" THEN [st EXCEPT !.p.clock_fmt = item.str]
  ELSE IF item.key = "spark_prob"
       THEN [p |-> StoreParam(st.p, "random_spark_probability", item.val), reset |-> TRUE]
  ELSE [st EXCEPT !.p = StoreParam(st.p, KeyParam(item.key), item.val)]

\* whether command.indexOf('=', p) finds an '=': it searches from the start of
\* piece k to the end of the whole string
EqFrom(command, k) == \E n \in k .. Len(command) : command[n].eq

\* the loop ending at the first key that is not recognized
RECURSIVE ParseFrom_stopsAtUnknown(_, _, _)
ParseFrom_stopsAtUnknown(st, command, k) ==
  IF k > Len(command) THEN st
  ELSE IF ~EqFrom(command, k) THEN st
  ELSE IF command[k].eq
       THEN IF command[k].key \notin RecognizedKeys THEN st
            ELSE ParseFrom_stopsAtUnknown(ApplyPair(st, command[k]), command, k + 1)
  ELSE ParseFrom_stopsAtUnknown(st, command, k + 1)

\* while (p<(int)command.length()) { ... }: command is the string split at its
\* commas. A piece without '=' takes as key the text up to the next '=' of the
\* string, which holds a comma and is no recognized key; parsing goes on with
\* the next piece. With no '=' left in the string the loop breaks.
RECURSIVE ParseFrom(_, _, _)
ParseFrom(st, command, k) ==
  IF k > Len(command) THEN st
  ELSE IF ~EqFrom(command, k) THEN st
  ELSE IF command[k].eq THEN ParseFrom(ApplyPair(st, command[k]), command, k + 1)
  ELSE ParseFrom(st, command, k + 1)

\* int handleParams(String command): the parameters after the call and
\* whether resetEnergy() was called
handleParams(p, command) == ParseFrom([p |-> p, reset |-> FALSE], command, 1)

-----------------------------------------------------------------------------
(* Text layer: newMessage and renderText *)

\* the String aText is a sequence of bytes; aText[i] of the code is aText[i + 1]
\* the code c the UTF-8 branch of newMessage gives for the byte after 0xC3
UmlautCode(second) ==
  CASE second = 132 -> 128
    [] second = 150 -> 129
    [] second = 156 -> 130
    [] second = 164 -> 131
    [] second = 182 -> 132
    [] second = 188 -> 133
    [] OTHER -> 127

\* text += String(c): String(char) of the NUL character is the empty string
AppendChar(txt, c) == IF c = 0 THEN txt ELSE Append(txt, c)

\* a decoding that rejects the whole message at an incomplete sequence
RECURSIVE DecodeFrom_rejectsTruncated(_, _, _)
DecodeFrom_rejectsTruncated(aText, i, txt) ==
  IF i >= Len(aText) THEN txt
  ELSE IF aText[i + 1] = 37
       THEN IF Len(aText) <= i + 2 THEN <<>>
            ELSE DecodeFrom_rejectsTruncated(aText, i + 3,
                   AppendChar(txt, U8(hexToInt(aText[i + 2]) * 16 + hexToInt(aText[i + 3]))))
  ELSE IF aText[i + 1] = 195
       THEN IF Len(aText) <= i + 1 THEN <<>>
            ELSE DecodeFrom_rejectsTruncated(aText, i + 2,
                   AppendChar(txt, UmlautCode(aText[i + 2])))
  ELSE DecodeFrom_rejectsTruncated(aText, i + 1, AppendChar(txt, aText[i + 1]))

\* while (i<(int)aText.length()) { ... } of newMessage: the decoded text
RECURSIVE DecodeFrom(_, _, _)
DecodeFrom(aText, i, txt) ==
  IF i >= Len(aText) THEN txt
  ELSE IF aText[i + 1] = 37
       THEN IF Len(aText) <= i + 2 THEN txt
            ELSE DecodeFrom(aText, i + 3,
                   AppendChar(txt, U8(hexToInt(aText[i + 2]) * 16 + hexToInt(aText[i + 3]))))
  ELSE IF aText[i + 1] = 195
       THEN IF Len(aText) <= i + 1 THEN txt
            ELSE DecodeFrom(aText, i + 2, AppendChar(txt, UmlautCode(aText[i + 2])))
  ELSE DecodeFrom(aText, i + 1, AppendChar(txt, aText[i + 1]))

newMessage_keepOffset(ts, aText, aLedsPerLevel) ==
  [ts EXCEPT !.text = DecodeFrom(aText, 0, <<>>),
             !.textCycleCount = 0,
             !.repeatCount = 0]

\* int newMessage(String aText); ts is the text state
\* [text, textPixelOffset, textCycleCount, repeatCount, textLayer]
newMessage(ts, aText, aLedsPerLevel) ==
  [ts EXCEPT !.text = DecodeFrom(aText, 0, <<>>),
             !.textPixelOffset = -aLedsPerLevel,
             !.textCycleCount = 0,
             !.repeatCount = 0]

\* void resetText()
resetText(aLedsPerLevel) == [i \in 0 .. aLedsPerLevel * rowsPerGlyph - 1 |-> 0]

\* crossFade taking the fade from the whole value instead of its variable part
crossFade_fadeOfValue(aFader, aValue, fade_base) ==
  LET baseBrightness == U8(Shr(aValue * fade_base, 8))
      varBrightness  == U8(aValue - baseBrightness)
      fade           == U8(Shr(aValue * aFader, 8))
  IN  [aOutputA |-> U8(baseBrightness + (varBrightness - fade)),
       aOutputB |-> U8(baseBrightness + fade)]

\* void crossFade(byte aFader, byte aValue, byte &aOutputA, byte &aOutputB),
\* fade_base being the global parameter
crossFade(aFader, aValue, fade_base) ==
  LET baseBrightness == U8(Shr(aValue * fade_base, 8))
      varBrightness  == U8(aValue - baseBrightness)
      fade           == U8(Shr(varBrightness * aFader, 8))
  IN  [aOutputA |-> U8(baseBrightness + (varBrightness - fade)),
       aOutputB |-> U8(baseBrightness + fade)]

\* totalTextPixels of renderText: the widths of the characters plus spacing
RECURSIVE TotalTextPixels(_)
TotalTextPixels(txt) ==
  IF txt = <<>> THEN 0
  ELSE fontGlyphs(glyphIndexForChar(Head(txt))).width + glyphSpacing
       + TotalTextPixels(Tail(txt))

\* the search for the glyph stepping by the glyphs' widths without the spacing
RECURSIVE GlyphColumn_noSpacing(_, _, _)
GlyphColumn_noSpacing(txt, charIndex, glyphOffset) ==
  IF charIndex >= Len(txt) THEN 0
  ELSE LET glyph == fontGlyphs(glyphIndexForChar(txt[charIndex + 1]))
       IN  IF glyphOffset < glyph.width THEN glyph.cols[glyphOffset + 1]
           ELSE GlyphColumn_noSpacing(txt, charIndex + 1, glyphOffset - glyph.width)

\* while (charIndex<textLen) { ... } of renderText and the fetch of the glyph
\* column after it: the font column at glyphOffset, 0 past the text's end and
\* in a spacing column
RECURSIVE GlyphColumn(_, _, _)
GlyphColumn(txt, charIndex, glyphOffset) ==
  IF charIndex >= Len(txt) THEN 0
  ELSE LET glyph == fontGlyphs(glyphIndexForChar(txt[charIndex + 1]))
           cw == glyph.width + glyphSpacing
       IN  IF glyphOffset < cw
           THEN IF glyphOffset < glyph.width THEN glyph.cols[glyphOffset + 1] ELSE 0
           ELSE GlyphColumn(txt, charIndex + 1, glyphOffset - cw)

\* the column fetched for every band column, the last two included
TextColumn_allColumns(txt, aOffset, x, aLedsPerLevel) ==
  IF aOffset + x >= 0
  THEN GlyphColumn(txt, 0, aOffset + x)
  ELSE 0

\* the font column renderText shows in band column x
TextColumn(txt, aOffset, x, aLedsPerLevel) ==
  IF x < aLedsPerLevel - 2 /\ aOffset + x >= 0
  THEN GlyphColumn(txt, 0, aOffset + x)
  ELSE 0

\* whether column & (0x40>>glyphRow) is non-zero
ColumnBit(column, glyphRow) == (column \div (2 ^ (6 - glyphRow))) % 2 = 1

\* one step of the two nested loops of renderText that fill textLayer: step k
\* is column x = k / rowsPerGlyph, row glyphRow = k % rowsPerGlyph
RenderCell(layer, k, txt, aOffset, aLedsPerLevel, aMirror, thisBright, nextBright, maxBright) ==
  LET x == k \div rowsPerGlyph
      glyphRow == k % rowsPerGlyph
      column == TextColumn(txt, aOffset, x, aLedsPerLevel)
      i == IF aMirror THEN (glyphRow + 1) * aLedsPerLevel - 1 - x
           ELSE glyphRow * aLedsPerLevel + x
      leftstep == IF aMirror THEN 1 ELSE -1
      lit == [layer EXCEPT ![i] = thisBright]
  IN  IF ColumnBit(column, glyphRow)
      THEN IF x > 0
           THEN [lit EXCEPT ![i + leftstep] =
                   increase(lit[i + leftstep], nextBright, maxBright)]
           ELSE lit
      ELSE [layer EXCEPT ![i] = 0]

\* the text layer after the steps lo .. hi-1 of the loops
RECURSIVE RenderColumns(_, _, _, _, _, _, _, _, _, _)
RenderColumns(layer, lo, hi, txt, aOffset, aLedsPerLevel, aMirror, thisBright, nextBright, maxBright) ==
  IF hi <= lo THEN layer
  ELSE IF hi = lo + 1 THEN RenderCell(layer, lo, txt, aOffset, aLedsPerLevel, aMirror,
                                  thisBright, nextBright, maxBright)
  ELSE LET mid == (lo + hi) \div 2
       IN  CHOOSE r \in {RenderColumns(lay, mid, hi, txt, aOffset, aLedsPerLevel, aMirror, thisBright, nextBright, maxBright) :
                         lay \in {RenderColumns(layer, lo, mid, txt, aOffset, aLedsPerLevel, aMirror, thisBright, nextBright, maxBright)}} : TRUE

\* the increment ending the pass one pixel early (>= instead of >)
TextIncrement_endsEarly(ts, p, aLedsPerLevel) ==
  LET total == TotalTextPixels(ts.text)
      tc == ts.textCycleCount + 1
  IN  IF tc >= p.cycles_per_px
      THEN IF ts.textPixelOffset + 1 >= total
           THEN IF p.text_repeats # 0 /\ ts.repeatCount + 1 >= p.text_repeats
                THEN [ts EXCEPT !.textCycleCount = 0,
                                !.textPixelOffset = ts.textPixelOffset + 1,
                                !.repeatCount = ts.repeatCount + 1,
                                !.text = <<>>]
                ELSE [ts EXCEPT !.textCycleCount = 0,
                                !.textPixelOffset = -aLedsPerLevel,
                                !.repeatCount = ts.repeatCount + 1]
           ELSE [ts EXCEPT !.textCycleCount = 0,
                           !.textPixelOffset = ts.textPixelOffset + 1]
      ELSE [ts EXCEPT !.textCycleCount = tc]

\* the increment showing a message for one pass more (> instead of >=)
TextIncrement_onePassMore(ts, p, aLedsPerLevel) ==
  LET total == TotalTextPixels(ts.text)
      tc == ts.textCycleCount + 1
  IN  IF tc >= p.cycles_per_px
      THEN IF ts.textPixelOffset + 1 > total
           THEN IF p.text_repeats # 0 /\ ts.repeatCount + 1 > p.text_repeats
                THEN [ts EXCEPT !.textCycleCount = 0,
                                !.textPixelOffset = ts.textPixelOffset + 1,
                                !.repeatCount = ts.repeatCount + 1,
                                !.text = <<>>]
                ELSE [ts EXCEPT !.textCycleCount = 0,
                                !.textPixelOffset = -aLedsPerLevel,
                                !.repeatCount = ts.repeatCount + 1]
           ELSE [ts EXCEPT !.textCycleCount = 0,
                           !.textPixelOffset = ts.textPixelOffset + 1]
      ELSE [ts EXCEPT !.textCycleCount = tc]

\* the "increment" part of renderText
TextIncrement(ts, p, aLedsPerLevel) ==
  LET total == TotalTextPixels(ts.text)
      tc == ts.textCycleCount + 1
  IN  IF tc >= p.cycles_per_px
      THEN IF ts.textPixelOffset + 1 > total
           THEN IF p.text_repeats # 0 /\ ts.repeatCount + 1 >= p.text_repeats
                THEN [ts EXCEPT !.textCycleCount = 0,
                                !.textPixelOffset = ts.textPixelOffset + 1,
                                !.repeatCount = ts.repeatCount + 1,
                                !.text = <<>>]
                ELSE [ts EXCEPT !.textCycleCount = 0,
                                !.textPixelOffset = -aLedsPerLevel,
                                !.repeatCount = ts.repeatCount + 1]
           ELSE [ts EXCEPT !.textCycleCount = 0,
                           !.textPixelOffset = ts.textPixelOffset + 1]
      ELSE [ts EXCEPT !.textCycleCount = tc]

\* byte maxBright = text_intensity-repeatCount*fade_per_repeat
MaxBright(ts, p) == U8(p.text_intensity - ts.repeatCount * p.fade_per_repeat)

\* void renderText(); quotient is the value of 255*textCycleCount/cycles_per_px
renderText(ts, p, aLedsPerLevel, aMirror, quotient) ==
  LET maxBright == MaxBright(ts, p)
      cf == crossFade(U8(quotient), maxBright, p.fade_base)
      rendered == RenderColumns(ts.textLayer, 0, aLedsPerLevel * rowsPerGlyph, ts.text,
                                ts.textPixelOffset, aLedsPerLevel, aMirror,
                                cf.aOutputA, cf.aOutputB, maxBright)
  IN  TextIncrement([ts EXCEPT !.textLayer = rendered], p, aLedsPerLevel)

-----------------------------------------------------------------------------
(* p44_ws2812: writing pixels by LED number *)

\* void setColor(uint16_t aLedNumber, byte aRed, byte aGreen, byte aBlue)
setColor(l, buf, aLedNumber, aRed, aGreen, aBlue) ==
  setColorXY(l, buf, aLedNumber % getSizeX(l), aLedNumber \div getSizeX(l),
             aRed, aGreen, aBlue)

\* void setColorDimmed(uint16_t aLedNumber, byte aRed, byte aGreen, byte aBlue,
\* byte aBrightness); the brightness is converted to byte by the call
setColorDimmed(l, buf, aLedNumber, aRed, aGreen, aBlue, aBrightness) ==
  setColorDimmedXY(l, buf, aLedNumber % getSizeX(l), aLedNumber \div getSizeX(l),
                   aRed, aGreen, aBlue, U8(aBrightness))

-----------------------------------------------------------------------------
(* Torch mode: the energy simulation *)

torch_passive == 0

torch_nop == 1

torch_spark == 2

torch_spark_temp == 3

\* void resetEnergy(): the value of each of the three arrays
resetEnergy(aNumLeds) == [i \in 0 .. aNumLeds - 1 |-> 0]

\* the modulus random() divides rand() by: aMax - aMinOrMax + 1 in uint16_t,
\* after the swap made when aMax is 0
RandomRange(aMinOrMax, aMax) ==
  IF aMax = 0 THEN U16(aMinOrMax - 0 + 1) ELSE U16(aMax - aMinOrMax + 1)

\* random() without the lower end added
random_noMin(aMinOrMax, aMax, rnd) ==
  LET range == RandomRange(aMinOrMax, aMax)
  IN  U16(IF range = 0 THEN rnd ELSE rnd % range)

\* uint16_t random(uint16_t aMinOrMax, uint16_t aMax = 0), rnd being the value
\* rand() returns. With a modulus of 0 the division is undefined; the Cortex-M3
\* divide then gives quotient 0, so the remainder is rnd itself, unless the
\* division traps (the caller models the trap).
random(aMinOrMax, aMax, rnd) ==
  LET lo == IF aMax = 0 THEN 0 ELSE aMinOrMax
      range == RandomRange(aMinOrMax, aMax)
  IN  U16(lo + (IF range = 0 THEN rnd ELSE rnd % range))

\* void injectRandom(); es is the energy state [ce: currentEnergy,
\* ne: nextEnergy, em: energyMode], rf[i] the rand() value for bottom row cell
\* i, rp[i] and rs[i] those of the probability test and of the spark energy of
\* second row cell i
InjectFlame(es, p, aLedsPerLevel, rf) ==
  [es EXCEPT
     !.ce = [i \in DOMAIN es.ce |->
               IF i < aLedsPerLevel THEN U8(random(p.flame_min, p.flame_max, rf[i]))
               ELSE es.ce[i]],
     !.em = [i \in DOMAIN es.em |-> IF i < aLedsPerLevel THEN torch_nop ELSE es.em[i]]]

SparkHit(es, p, i, rp) ==
  es.em[i] # torch_spark /\ random(100, 0, rp[i]) < p.random_spark_probability

injectRandom(es, p, aLedsPerLevel, rf, rp, rs) ==
  LET fl == InjectFlame(es, p, aLedsPerLevel, rf)
      second == {i \in DOMAIN es.ce : i >= aLedsPerLevel /\ i < 2 * aLedsPerLevel}
  IN  [fl EXCEPT
         !.ce = [i \in DOMAIN fl.ce |->
                   IF i \in second /\ SparkHit(fl, p, i, rp)
                   THEN U8(random(p.spark_min, p.spark_max, rs[i]))
                   ELSE fl.ce[i]],
         !.em = [i \in DOMAIN fl.em |->
                   IF i \in second /\ SparkHit(fl, p, i, rp) THEN torch_spark
                   ELSE fl.em[i]]]

\* a read of currentEnergy[idx]: outside the array the read is undefined and
\* gives some byte, oob
ReadEnergy(arr, idx, oob) == IF idx \in DOMAIN arr THEN arr[idx] ELSE oob

\* a write energyMode[idx] = v: outside the array (a cell of the bottom row
\* in spark_temp mode, which no tick of loop() produces) the write is dropped
WriteMode(arr, idx, v) == IF idx \in DOMAIN arr THEN [arr EXCEPT ![idx] = v] ELSE arr

\* the passive gain with the side neighbours weighted like the cell below
PassiveGain_sideShift8(ce, p, i, aLedsPerLevel, oob) ==
  Shr((ReadEnergy(ce, i - 1, oob) + ReadEnergy(ce, i + 1, oob)) * p.side_rad, 8)
  + Shr(ReadEnergy(ce, i - aLedsPerLevel, oob) * p.up_rad, 8)

\* the amount the torch_passive case passes to increase(), before its
\* conversion to byte
PassiveGain(ce, p, i, aLedsPerLevel, oob) ==
  Shr((ReadEnergy(ce, i - 1, oob) + ReadEnergy(ce, i + 1, oob)) * p.side_rad, 9)
  + Shr(ReadEnergy(ce, i - aLedsPerLevel, oob) * p.up_rad, 8)

\* case torch_passive: the new energy of cell i
PassiveNext(e, ce, p, i, aLedsPerLevel, oob) ==
  increase(U8(Shr(e * p.heat_cap, 8)), PassiveGain(ce, p, i, aLedsPerLevel, oob), 255)

\* the body of the loops with an exhausted spark below left a spark
CellStep_keepsSparkBelow(st, ce, p, i, aLedsPerLevel, aLevels, oob) ==
  LET e == ce[i]
      m == st.em[i]
      y == i \div aLedsPerLevel
  IN  IF m = torch_spark
      THEN [ne |-> [st.ne EXCEPT ![i] = reduce(e, p.spark_tfr, 0)],
            em |-> IF y < aLevels - 1
                   THEN WriteMode(st.em, i + aLedsPerLevel, torch_spark_temp)
                   ELSE st.em]
      ELSE IF m = torch_spark_temp
      THEN LET e2 == ReadEnergy(ce, i - aLedsPerLevel, oob)
           IN  IF e2 < p.spark_tfr
               THEN [ne |-> [st.ne EXCEPT ![i] =
                               U8(Shr(increase(e, e2, 255) * p.spark_cap, 8))],
                     em |-> [st.em EXCEPT ![i] = torch_spark]]
               ELSE [ne |-> [st.ne EXCEPT ![i] = increase(e, p.spark_tfr, 255)],
                     em |-> st.em]
      ELSE IF m = torch_passive
      THEN [ne |-> [st.ne EXCEPT ![i] = PassiveNext(e, ce, p, i, aLedsPerLevel, oob)],
            em |-> st.em]
      ELSE [ne |-> [st.ne EXCEPT ![i] = e], em |-> st.em]

\* the body of the loops of calcNextEnergy for cell i; st is [ne, em]
CellStep(st, ce, p, i, aLedsPerLevel, aLevels, oob) ==
  LET e == ce[i]
      m == st.em[i]
      y == i \div aLedsPerLevel
  IN  IF m = torch_spark
      THEN [ne |-> [st.ne EXCEPT ![i] = reduce(e, p.spark_tfr, 0)],
            em |-> IF y < aLevels - 1
                   THEN WriteMode(st.em, i + aLedsPerLevel, torch_spark_temp)
                   ELSE st.em]
      ELSE IF m = torch_spark_temp
      THEN LET e2 == ReadEnergy(ce, i - aLedsPerLevel, oob)
           IN  IF e2 < p.spark_tfr
               THEN [ne |-> [st.ne EXCEPT ![i] =
                               U8(Shr(increase(e, e2, 255) * p.spark_cap, 8))],
                     em |-> [WriteMode(st.em, i - aLedsPerLevel, torch_passive)
                               EXCEPT ![i] = torch_spark]]
               ELSE [ne |-> [st.ne EXCEPT ![i] = increase(e, p.spark_tfr, 255)],
                     em |-> st.em]
      ELSE IF m = torch_passive
      THEN [ne |-> [st.ne EXCEPT ![i] = PassiveNext(e, ce, p, i, aLedsPerLevel, oob)],
            em |-> st.em]
      ELSE [ne |-> [st.ne EXCEPT ![i] = e], em |-> st.em]

\* [ne, em] after the cells lo .. hi-1 have been processed
RECURSIVE CellLoop(_, _, _, _, _, _, _, _)
CellLoop(st, ce, p, lo, hi, aLedsPerLevel, aLevels, oob) ==
  IF hi <= lo THEN st
  ELSE IF hi = lo + 1 THEN CellStep(st, ce, p, lo, aLedsPerLevel, aLevels, oob)
  ELSE LET mid == (lo + hi) \div 2
       IN  CHOOSE r \in {CellLoop(s, ce, p, mid, hi, aLedsPerLevel, aLevels, oob) :
                         s \in {CellLoop(st, ce, p, lo, mid, aLedsPerLevel, aLevels, oob)}} : TRUE

\* void calcNextEnergy()
calcNextEnergy(es, p, aLedsPerLevel, aLevels, oob) ==
  LET st == CellLoop([ne |-> es.ne, em |-> es.em], es.ce, p, 0, aLedsPerLevel * aLevels,
                     aLedsPerLevel, aLevels, oob)
  IN  [ce |-> es.ce, ne |-> st.ne, em |-> st.em]

-----------------------------------------------------------------------------
(* Torch mode: colours; the frames of the other modes *)

\* const uint8_t energymap[32]; energymap[v] of the code is EnergyMapSeq[v + 1]
EnergyMapSeq ==
  << 0, 64, 96, 112, 128, 144, 152, 160, 168, 176, 184, 184, 192, 200, 200, 208,
     208, 216, 216, 224, 224, 224, 232, 232, 232, 240, 240, 240, 240, 248, 248, 248 >>

energymap(v) == EnergyMapSeq[v + 1]

\* textStart and textEnd of calcNextColors and loop
TextStart(p, aLedsPerLevel) == p.text_base_line * aLedsPerLevel

TextEnd(p, aLedsPerLevel) == TextStart(p, aLedsPerLevel) + rowsPerGlyph * aLedsPerLevel

\* i>=textStart && i<textEnd && textLayer[i-textStart]>0
IsTextPixel(layer, p, aLedsPerLevel, i) ==
  /\ i >= TextStart(p, aLedsPerLevel)
  /\ i < TextEnd(p, aLedsPerLevel)
  /\ layer[i - TextStart(p, aLedsPerLevel)] > 0

\* the colour calcNextColors gives a pixel without text whose energy is e
EnergyColor(p, e) ==
  IF e > 250 THEN [r |-> 170, g |-> 170, b |-> U8(e)]
  ELSE IF e > 0
  THEN LET eb == energymap(Shr(e, 3))
       IN  [r |-> increase(p.red_bias, Shr(eb * p.red_energy, 8), 255),
            g |-> increase(p.green_bias, Shr(eb * p.green_energy, 8), 255),
            b |-> increase(p.blue_bias, Shr(eb * p.blue_energy, 8), 255)]
  ELSE [r |-> p.red_bg, g |-> p.green_bg, b |-> p.blue_bg]

\* the body of the loop of calcNextColors for pixel i; st is [ce, ne, buf].
\* With upside_down set and i = 0 the index ei = numLeds is outside both
\* arrays: the read of nextEnergy gives some byte, oob, and the write to
\* currentEnergy lands behind the array, in nextEnergy[0] when aHit (the arrays
\* are declared one after the other), else in no modelled object.
ColorStep(st, l, layer, p, aLedsPerLevel, aNumLeds, i, oob, aHit) ==
  IF IsTextPixel(layer, p, aLedsPerLevel, i)
  THEN [st EXCEPT !.buf =
          setColorDimmed(l, st.buf, i, p.red_text, p.green_text, p.blue_text,
                         Shr(p.brightness * layer[i - TextStart(p, aLedsPerLevel)], 8))]
  ELSE LET ei == IF p.upside_down # 0 THEN aNumLeds - i ELSE i
           e == ReadEnergy(st.ne, ei, oob)
           c == EnergyColor(p, e)
           ce1 == IF ei \in DOMAIN st.ce THEN [st.ce EXCEPT ![ei] = e] ELSE st.ce
           ne1 == IF ei \notin DOMAIN st.ce /\ aHit /\ aNumLeds > 0
                  THEN [st.ne EXCEPT ![0] = e] ELSE st.ne
       IN  [ce |-> ce1, ne |-> ne1,
            buf |-> setColorDimmed(l, st.buf, i, c.r, c.g, c.b, p.brightness)]

\* [ce, ne, buf] after the pixels lo .. hi-1 have been processed
RECURSIVE ColorLoop(_, _, _, _, _, _, _, _, _, _)
ColorLoop(st, l, layer, p, aLedsPerLevel, aNumLeds, lo, hi, oob, aHit) ==
  IF hi <= lo THEN st
  ELSE IF hi = lo + 1 THEN ColorStep(st, l, layer, p, aLedsPerLevel, aNumLeds, lo, oob, aHit)
  ELSE LET mid == (lo + hi) \div 2
       IN  CHOOSE r \in {ColorLoop(s, l, layer, p, aLedsPerLevel, aNumLeds, mid, hi, oob, aHit) :
                         s \in {ColorLoop(st, l, layer, p, aLedsPerLevel, aNumLeds, lo, mid, oob, aHit)}} : TRUE

\* void calcNextColors(): the energy state and the pixel buffer after it
calcNextColors(es, buf, l, layer, p, aLedsPerLevel, aNumLeds, oob, aHit) ==
  LET st == ColorLoop([ce |-> es.ce, ne |-> es.ne, buf |-> buf], l, layer, p,
                      aLedsPerLevel, aNumLeds, 0, aNumLeds, oob, aHit)
  IN  [es |-> [ce |-> st.ce, ne |-> st.ne, em |-> es.em], buf |-> st.buf]

\* case mode_off with its loop starting at pixel 1
RECURSIVE FrameOff_skipsFirst(_, _, _, _)
FrameOff_skipsFirst(l, buf, lo, hi) ==
  IF hi <= lo THEN buf
  ELSE IF hi = lo + 1 THEN IF lo = 0 THEN buf ELSE setColor(l, buf, lo, 0, 0, 0)
  ELSE LET mid == (lo + hi) \div 2
       IN  CHOOSE r \in {FrameOff_skipsFirst(l, b, mid, hi) :
                         b \in {FrameOff_skipsFirst(l, buf, lo, mid)}} : TRUE

\* case mode_off of loop: the buffer after the pixels lo .. hi-1 are set
RECURSIVE FrameOff(_, _, _, _)
FrameOff(l, buf, lo, hi) ==
  IF hi <= lo THEN buf
  ELSE IF hi = lo + 1 THEN setColor(l, buf, lo, 0, 0, 0)
  ELSE LET mid == (lo + hi) \div 2
       IN  CHOOSE r \in {FrameOff(l, b, mid, hi) :
                         b \in {FrameOff(l, buf, lo, mid)}} : TRUE

\* the body of the loop of case mode_lamp for pixel i
LampStep(l, buf, layer, p, aLedsPerLevel, i) ==
  IF IsTextPixel(layer, p, aLedsPerLevel, i)
  THEN setColorDimmed(l, buf, i, p.red_text, p.green_text, p.blue_text,
                      Shr(layer[i - TextStart(p, aLedsPerLevel)] * p.brightness, 8))
  ELSE setColorDimmed(l, buf, i, p.lamp_red, p.lamp_green, p.lamp_blue, p.brightness)

\* case mode_lamp of loop: the buffer after the pixels lo .. hi-1 are set
RECURSIVE FrameLamp(_, _, _, _, _, _, _)
FrameLamp(l, buf, layer, p, aLedsPerLevel, lo, hi) ==
  IF hi <= lo THEN buf
  ELSE IF hi = lo + 1 THEN LampStep(l, buf, layer, p, aLedsPerLevel, lo)
  ELSE LET mid == (lo + hi) \div 2
       IN  CHOOSE r \in {FrameLamp(l, b, layer, p, aLedsPerLevel, mid, hi) :
                         b \in {FrameLamp(l, buf, layer, p, aLedsPerLevel, lo, mid)}} : TRUE

\* the colour wheel position of pixel i in mode_colorcycle, aCnt being cnt
\* after its increment
WheelPosOf(l, i, aCnt) == (CDiv(i * 256, getNumPixels(l)) + aCnt) % 256

\* the body of the loop of case mode_colorcycle for pixel i
ColorCycleStep(l, buf, layer, p, aLedsPerLevel, aCnt, i) ==
  LET c == wheel(WheelPosOf(l, i, aCnt))
  IN  IF IsTextPixel(layer, p, aLedsPerLevel, i)
      THEN setColorDimmed(l, buf, i, c.r, c.g, c.b,
                          Shr(layer[i - TextStart(p, aLedsPerLevel)] * p.brightness, 8))
      ELSE setColorDimmed(l, buf, i, c.r, c.g, c.b, Shr(p.brightness, 1))

\* case mode_colorcycle of loop: the buffer after the pixels lo .. hi-1 are set
RECURSIVE FrameColorCycle(_, _, _, _, _, _, _, _)
FrameColorCycle(l, buf, layer, p, aLedsPerLevel, aCnt, lo, hi) ==
  IF hi <= lo THEN buf
  ELSE IF hi = lo + 1 THEN ColorCycleStep(l, buf, layer, p, aLedsPerLevel, aCnt, lo)
  ELSE LET mid == (lo + hi) \div 2
       IN  CHOOSE r \in {FrameColorCycle(l, b, layer, p, aLedsPerLevel, aCnt, mid, hi) :
                         b \in {FrameColorCycle(l, buf, layer, p, aLedsPerLevel, aCnt, lo, mid)}} : TRUE

\* the body of the loop of case mode_testpattern for pixel i
TestPatternStep(l, buf, aLedsPerLevel, i) ==
  LET c == wheel(U8((i % aLedsPerLevel) * 10))
  IN  setColorDimmed(l, buf, i, c.r, c.g, c.b, 60 + (i \div aLedsPerLevel) * 9)

\* case mode_testpattern of loop: the buffer after the pixels lo .. hi-1 are set
RECURSIVE FrameTestPattern(_, _, _, _, _)
FrameTestPattern(l, buf, aLedsPerLevel, lo, hi) ==
  IF hi <= lo THEN buf
  ELSE IF hi = lo + 1 THEN TestPatternStep(l, buf, aLedsPerLevel, lo)
  ELSE LET mid == (lo + hi) \div 2
       IN  CHOOSE r \in {FrameTestPattern(l, b, aLedsPerLevel, mid, hi) :
                         b \in {FrameTestPattern(l, buf, aLedsPerLevel, lo, mid)}} : TRUE

-----------------------------------------------------------------------------
(* Bounds of the model and the inputs drawn *)

\* the largest number of LEDs and the longest row a driver is built with
MaxNumLeds == 4

MaxPixelsPerRow == 2

\* the largest number of LEDs per pixel a driver is built with
MaxLedsPerPixel == 2

\* the largest number of LEDs of the chains whose show() is checked alone
MaxShowLeds == 2

\* the size of the torch's grid (ledsPerLevel and levels, scaled down)
GridLedsPerLevel == 3

GridLevels == 3

\* the most loop() calls of a run of the torch, and of a scrolling run
MaxTicks == 4

MaxScrollTicks == 16

\* the most cloud function calls of a run
MaxCalls == 3

\* the largest cycles_per_px of the scrolling runs
MaxCyclesPerPx == 2

\* coordinates passed to setColorXY and setColorDimmedXY: inside the grids'
\* rows, beyond them, and the largest uint16_t, with which the index wraps
CoordSamples == {0, 1, 2, 65535}

\* colours passed to setColorXY; colour and brightness passed to setColorDimmedXY
\* (both sample calls store the same pixel value, 16, 8, 1)
ColorSamples == { <<128, 64, 8>> }

DimmedSamples == { <<255, 129, 17, 129>> }

\* the record lastOp of an operation
Op(name, x, y, m, msg) == [op |-> name, x |-> x, y |-> y, mode |-> m, msg |-> msg]

-----------------------------------------------------------------------------
(* The state after setup() *)

\* the torch program's variables after setup() and aCalls cloud function
\* calls that left the parameters aParams, for a configuration
ProgramState(aLedsPerLevel, aLevels, aMirror, aParams, aCalls) ==
  /\ ledsPerLevel = aLedsPerLevel
  /\ levels = aLevels
  /\ mirrorText = aMirror
  /\ params = aParams
  /\ text = <<>>
  /\ textPixelOffset = 0
  /\ textCycleCount = 0
  /\ repeatCount = 0
  /\ textLayer = resetText(aLedsPerLevel)
  /\ currentEnergy = resetEnergy(aLedsPerLevel * aLevels)
  /\ nextEnergy = resetEnergy(aLedsPerLevel * aLevels)
  /\ energyMode = resetEnergy(aLedsPerLevel * aLevels)
  /\ cnt = 0
  /\ halted = FALSE
  /\ lastMessage = <<>>
  /\ ticksSinceMessage = -1
  /\ ticks = 0
  /\ calls = aCalls

\* the torch program's variables after setup()
ProgramSetup(aLedsPerLevel, aLevels, aMirror) ==
  ProgramState(aLedsPerLevel, aLevels, aMirror, DefaultParams, 0)

\* p44_ws2812 leds(LED_TYPE, numLeds, swapXY ? levels : ledsPerLevel, reversedX,
\* alternatingX, swapXY, reversedY, 1) and leds.begin()
TorchDriver(aLedType, aLedsPerLevel, aLevels, aReversedX, aAlternatingX, aSwapXY, aReversedY) ==
  /\ leds = P44Construct(aLedType, aLedsPerLevel * aLevels,
                         IF aSwapXY THEN aLevels ELSE aLedsPerLevel,
                         aReversedX, aAlternatingX, aSwapXY, aReversedY, 1)
  /\ pixelBuffer = ClearedBuffer(leds)
  /\ spiOut = <<>>
  /\ irqEnabled = TRUE

programVars ==
  << configVars, params, textVars, energyVars, cnt, halted, lastMessage,
     ticksSinceMessage, ticks, calls >>

-----------------------------------------------------------------------------
(* The driver used on its own *)

\* a driver built with any constructor arguments, its buffer cleared
DriverInit ==
  /\ \E aNumLeds \in 1 .. MaxNumLeds, aPixelsPerRow \in 0 .. MaxPixelsPerRow,
        aLedsPerPixel \in 0 .. MaxLedsPerPixel,
        aXReversed \in BOOLEAN, aAlternating \in BOOLEAN,
        aSwapXY \in BOOLEAN, aYReversed \in BOOLEAN :
       leds = P44Construct("ws2812", aNumLeds, aPixelsPerRow, aXReversed,
                           aAlternating, aSwapXY, aYReversed, aLedsPerPixel)
  /\ pixelBuffer = ClearedBuffer(leds)
  /\ spiOut = <<>>
  /\ irqEnabled = TRUE
  /\ ProgramSetup(1, 1, FALSE)
  /\ lastOp = Op("construct", 0, 0, 0, <<>>)

SetColorXY(aX, aY, c) ==
  /\ pixelBuffer' = setColorXY(leds, pixelBuffer, aX, aY, c[1], c[2], c[3])
  /\ lastOp' = Op("setColorXY", aX, aY, 0, <<>>)
  /\ UNCHANGED <<leds, spiOut, irqEnabled, programVars>>

SetColorDimmedXY(aX, aY, c) ==
  /\ pixelBuffer' = setColorDimmedXY(leds, pixelBuffer, aX, aY, c[1], c[2], c[3], c[4])
  /\ lastOp' = Op("setColorDimmedXY", aX, aY, 0, <<>>)
  /\ UNCHANGED <<leds, spiOut, irqEnabled, programVars>>

DriverNext ==
  \/ \E aX \in CoordSamples, aY \in CoordSamples, c \in ColorSamples : SetColorXY(aX, aY, c)
  \/ \E aX \in CoordSamples, aY \in CoordSamples, c \in DimmedSamples : SetColorDimmedXY(aX, aY, c)

SpecDriver == DriverInit /\ [][DriverNext]_vars

-----------------------------------------------------------------------------
(* Claims about the driver's coordinate mapping *)

\* the logical coordinates of the driver's grid
GridXY == (0 .. getSizeX(leds) - 1) \X (0 .. getSizeY(leds) - 1)

\* C1: for every combination of the topology flags and every grid size,
\* ledIndexFromXY restricted to the grid 0 <= x < getSizeX(), 0 <= y < getSizeY()
\* is injective, and every physical index in [0, numPixels) is the image of
\* exactly one (x, y) of the grid.
C1_MappingBijective ==
  /\ \A c1 \in GridXY, c2 \in GridXY :
       ledIndexFromXY(leds, c1[1], c1[2]) = ledIndexFromXY(leds, c2[1], c2[2]) => c1 = c2
  /\ \A n \in 0 .. leds.numPixels - 1 :
       Cardinality({c \in GridXY : ledIndexFromXY(leds, c[1], c[2]) = n}) = 1

\* C1's case: a grid of at least two rows and two columns, wired serpentine,
\* axes swapped and Y reversed, in which setColorXY has written the pixel of an
\* in-range coordinate of an odd row
C1_Witness ==
  /\ leds.alternating /\ leds.swapXY /\ leds.yReversed
  /\ leds.numRows >= 2 /\ leds.pixelsPerRow >= 2
  /\ leds.numPixels = leds.numRows * leds.pixelsPerRow
  /\ lastOp.op = "setColorXY"
  /\ <<lastOp.x, lastOp.y>> \in GridXY
  /\ lastOp.x = 0 /\ lastOp.y = 1
  /\ pixelBuffer[ledIndexFromXY(leds, lastOp.x, lastOp.y)].red = 16

\* whether a call's coordinates lie outside the grid
OutOfRange(aX, aY) == aX >= getSizeX(leds) \/ aY >= getSizeY(leds)

\* C6: setColorXY and setColorDimmedXY called with x >= getSizeX() or
\* y >= getSizeY() leave every pixel of the pixel buffer unchanged, for every
\* combination of the topology flags.
C6_OutOfRangeIgnored ==
  [][ ( /\ lastOp'.op \in {"setColorXY", "setColorDimmedXY"}
        /\ OutOfRange(lastOp'.x, lastOp'.y) )
      => pixelBuffer' = pixelBuffer ]_vars

-----------------------------------------------------------------------------
(* show() on its own: a chain of either type, filled and sent *)

\* colours passed to setColor before a frame is sent (stored as 31, 16, 8)
ShowColors == { <<255, 128, 64>> }

\* for(int i=0; i<n; i++) leds.setColor(i, v, v, v): the pixels lo .. hi-1 set
\* to one grey
RECURSIVE FilledBuffer(_, _, _, _, _)
FilledBuffer(l, buf, lo, hi, v) ==
  IF hi <= lo THEN buf
  ELSE IF hi = lo + 1 THEN setColor(l, buf, lo, v, v, v)
  ELSE LET mid == (lo + hi) \div 2
       IN  CHOOSE r \in {FilledBuffer(l, b, mid, hi, v) :
                         b \in {FilledBuffer(l, buf, lo, mid, v)}} : TRUE

\* a chain of either LED type, every pixel holding the same stored value 0..31
ShowInit ==
  /\ \E aLedType \in LedTypes, aNumLeds \in 1 .. MaxShowLeds,
        aLedsPerPixel \in 1 .. MaxLedsPerPixel :
       leds = P44Construct(aLedType, aNumLeds, 0, FALSE, FALSE, FALSE, FALSE, aLedsPerPixel)
  /\ \E v \in 0 .. 31 : pixelBuffer = FilledBuffer(leds, ClearedBuffer(leds), 0, getNumPixels(leds), 8 * v)
  /\ spiOut = <<>>
  /\ irqEnabled = TRUE
  /\ ProgramSetup(1, 1, FALSE)
  /\ lastOp = Op("construct", 0, 0, 0, <<>>)

SetColor(aLedNumber, c) ==
  /\ getNumPixels(leds) > 0
  /\ pixelBuffer' = setColor(leds, pixelBuffer, aLedNumber, c[1], c[2], c[3])
  /\ lastOp' = Op("setColor", aLedNumber, 0, 0, <<>>)
  /\ UNCHANGED <<leds, spiOut, irqEnabled, programVars>>

\* leds.show(): the events of one call, and the interrupt mask it leaves
Show ==
  /\ spiOut' = show(leds, pixelBuffer)
  /\ irqEnabled' = IrqAfter(spiOut', irqEnabled)
  /\ lastOp' = Op("show", 0, 0, 0, <<>>)
  /\ UNCHANGED <<leds, pixelBuffer, programVars>>

ShowNext ==
  \/ \E aLedNumber \in 0 .. MaxShowLeds, c \in ShowColors : SetColor(aLedNumber, c)
  \/ Show

SpecShow == ShowInit /\ [][ShowNext]_vars

-----------------------------------------------------------------------------
(* Claims about show() *)

\* the pulse bytes of the last frame: the events between the two interrupt calls
FrameBytes == SubSeq(spiOut, 2, Len(spiOut) - 1)

\* the number of channel transmissions of one pass over the chain
GroupsPerPass == getNumPixels(leds) * leds.ledsPerPixel * 3

\* the LED type whose code sent the g-th group of 8 bytes of the frame
GroupType(g) ==
  IF leds.ledType = "ws2811_brg" /\ g < GroupsPerPass THEN "ws2811_brg" ELSE "ws2812"

\* the stored value of the channel at position g of a pass in the order of aType
StoredChannel(aType, g) ==
  LET pix == pixelBuffer[((g % GroupsPerPass) \div 3) \div leds.ledsPerPixel]
      c   == g % 3
  IN  IF aType = "ws2812"
      THEN (IF c = 0 THEN pix.green ELSE IF c = 1 THEN pix.red ELSE pix.blue)
      ELSE (IF c = 0 THEN pix.blue ELSE IF c = 1 THEN pix.red ELSE pix.green)

LongPulse(aType) == IF aType = "ws2812" THEN 126 ELSE 124

ShortPulse(aType) == IF aType = "ws2812" THEN 112 ELSE 64

\* the 8 bytes at group g are the bits of pwmTable[v], most significant first,
\* in the pulse patterns of aType
GroupEncodes(g, v, aType) ==
  \A k \in 0 .. 7 :
    FrameBytes[8 * g + k + 1] =
      IF (pwmTable(v) \div 2^(7 - k)) % 2 = 1 THEN LongPulse(aType) ELSE ShortPulse(aType)

C3_OneFramePerShow ==
  lastOp.op = "show" =>
    /\ Len(FrameBytes) = getNumPixels(leds) * leds.ledsPerPixel * 24
    /\ \A g \in 0 .. (Len(FrameBytes) \div 8) - 1 :
         GroupEncodes(g, StoredChannel(leds.ledType, g), leds.ledType)

\* C4: in show(), interrupts are disabled before the first SPI transfer, every
\* SPI transfer of the frame happens with interrupts disabled, and interrupts
\* are enabled again when show() returns, for both LED types.
C4_IrqOffAroundFrame ==
  lastOp.op = "show" =>
    /\ Len(spiOut) >= 2
    /\ spiOut[1] = DisableIrq
    /\ spiOut[Len(spiOut)] = EnableIrq
    /\ \A i \in 2 .. Len(spiOut) - 1 : spiOut[i] \in 0 .. 255
    /\ irqEnabled

\* C4's case: a frame with pulse bytes has been sent to a ws2811_brg chain
C4_Witness ==
  /\ lastOp.op = "show"
  /\ leds.ledType = "ws2811_brg"
  /\ Len(spiOut) > 2
  /\ \E i \in 1 .. Len(spiOut) : spiOut[i] = 124

-----------------------------------------------------------------------------
(* The torch program: setup(), the cloud functions and loop() *)

\* the text variables and the energy arrays as the records the functions take
TextState ==
  [text |-> text, textPixelOffset |-> textPixelOffset,
   textCycleCount |-> textCycleCount, repeatCount |-> repeatCount,
   textLayer |-> textLayer]

EnergyState == [ce |-> currentEnergy, ne |-> nextEnergy, em |-> energyMode]

SetTextState(ts) ==
  /\ text' = ts.text
  /\ textPixelOffset' = ts.textPixelOffset
  /\ textCycleCount' = ts.textCycleCount
  /\ repeatCount' = ts.repeatCount
  /\ textLayer' = ts.textLayer

SetEnergyState(es) ==
  /\ currentEnergy' = es.ce
  /\ nextEnergy' = es.ne
  /\ energyMode' = es.em

\* the state after setup() of a torch of the given size, wired as configured
\* (LED_TYPE ws2812, no axis reversed or swapped, text not mirrored)
ProgramInit(aLedsPerLevel, aLevels) ==
  /\ TorchDriver("ws2812", aLedsPerLevel, aLevels, FALSE, FALSE, FALSE, FALSE)
  /\ ProgramSetup(aLedsPerLevel, aLevels, FALSE)
  /\ lastOp = Op("setup", 0, 0, mode_torch, <<>>)

\* return 1; at the end of newMessage, its only return
newMessageReturn == 1

\* Spark.function("message", newMessage)
NewMessage(aText) ==
  /\ ~halted
  /\ calls < MaxCalls
  /\ SetTextState(newMessage(TextState, aText, ledsPerLevel))
  /\ lastMessage' = aText
  /\ ticksSinceMessage' = 0
  /\ calls' = calls + 1
  /\ lastOp' = Op("newMessage", newMessageReturn, 0, params.mode, aText)
  /\ UNCHANGED <<driverVars, configVars, params, energyVars, cnt, halted, ticks>>

\* Spark.function("params", handleParams)
HandleParams(command) ==
  /\ ~halted
  /\ calls < MaxCalls
  /\ LET r == handleParams(params, command)
     IN  /\ params' = r.p
         /\ IF r.reset
            THEN SetEnergyState([ce |-> resetEnergy(ledsPerLevel * levels),
                                 ne |-> resetEnergy(ledsPerLevel * levels),
                                 em |-> resetEnergy(ledsPerLevel * levels)])
            ELSE UNCHANGED energyVars
  /\ calls' = calls + 1
  /\ lastOp' = Op("handleParams", 0, 0, params.mode, command)
  /\ UNCHANGED <<driverVars, configVars, textVars, cnt, halted, lastMessage,
                 ticksSinceMessage, ticks>>

\* strftime(timeString, 30, clock_fmt, loc) for the format set
ClockString(fmt) == IF fmt = "%k:%M" THEN <<49, 50, 58, 51, 52>> ELSE <<>>

\* the clock check of loop(): whether secOfHour % clock_interval == 0 now, and
\* the time string shown then. With an interval of 1 it always is.
ClockOutcomes(p) ==
  IF p.clock_interval > 0
  THEN {[due |-> TRUE, str |-> ClockString(p.clock_fmt)]}
       \cup (IF p.clock_interval = 1 THEN {} ELSE {[due |-> FALSE, str |-> <<>>]})
  ELSE {[due |-> FALSE, str |-> <<>>]}

\* what one tick takes from outside the program: rand() for each cell (rf for
\* the flames, rp for the spark test, rs for the spark energy), the byte an
\* out-of-bounds read gives and whether an out-of-bounds write hits nextEnergy
TickOutcome(f, q, s, aOob, aHit) ==
  [rf |-> [i \in 0 .. ledsPerLevel * levels - 1 |-> f],
   rp |-> [i \in 0 .. ledsPerLevel * levels - 1 |-> q],
   rs |-> [i \in 0 .. ledsPerLevel * levels - 1 |-> s],
   oob |-> aOob, hit |-> aHit]

\* a tick without sparks, and a tick in which every spark test draws 0
TorchOutcomes == { TickOutcome(100, 100, 0, 0, FALSE), TickOutcome(0, 0, 100, 255, TRUE) }

\* the division by zero a tick evaluates first, if any: in renderText
\* (cycles_per_px), in the flames' or in a spark's random()
DivStage(p, es, d) ==
  IF p.cycles_per_px = 0 THEN "render"
  ELSE IF p.mode # mode_torch THEN "none"
  ELSE IF RandomRange(p.flame_min, p.flame_max) = 0 THEN "flame"
  ELSE IF /\ RandomRange(p.spark_min, p.spark_max) = 0
          /\ \E i \in ledsPerLevel .. 2 * ledsPerLevel - 1 :
               /\ i \in DOMAIN es.ce
               /\ SparkHit(InjectFlame(es, p, ledsPerLevel, d.rf), p, i, d.rp)
       THEN "spark"
  ELSE "none"

\* the tick's outcome in the modes that draw nothing and read no energy
NoOutcome == TickOutcome(0, 0, 0, 0, FALSE)

\* the start of loop(): the clock's newMessage, if due, and renderText()
TickText(clk, aTrapped) ==
  LET p   == params
      ts0 == IF clk.due THEN newMessage(TextState, clk.str, ledsPerLevel) ELSE TextState
      quotient == IF p.cycles_per_px = 0 THEN 0
                  ELSE CDiv(255 * ts0.textCycleCount, p.cycles_per_px)
  IN  IF aTrapped THEN ts0
      ELSE renderText(ts0, p, ledsPerLevel, mirrorText, quotient)

\* case mode_torch of loop() up to calcNextEnergy(): the energy state after
\* injectRandom() and calcNextEnergy()
TickEnergy(d) ==
  LET injected == injectRandom(EnergyState, params, ledsPerLevel, d.rf, d.rp, d.rs)
  IN  CHOOSE r \in {calcNextEnergy(es, params, ledsPerLevel, levels, d.oob) :
                      es \in {injected}} : TRUE

\* switch (mode) of loop(): the energy state and the pixel buffer after it,
\* layer being the text layer renderText() left, aCnt the value of cnt after
\* the case's cnt++ and aEnergy the energy state calcNextEnergy() left
TickFrame(layer, d, aCnt, aEnergy) ==
  LET p == params
  IN  IF p.mode = mode_torch
      THEN calcNextColors(aEnergy, pixelBuffer, leds, layer, p, ledsPerLevel,
                          ledsPerLevel * levels, d.oob, d.hit)
      ELSE [ es  |-> EnergyState,
             buf |-> CASE p.mode = mode_off -> FrameOff(leds, pixelBuffer, 0, getNumPixels(leds))
                       [] p.mode = mode_lamp ->
                            FrameLamp(leds, pixelBuffer, layer, p, ledsPerLevel,
                                      0, getNumPixels(leds))
                       [] p.mode = mode_colorcycle ->
                            FrameColorCycle(leds, pixelBuffer, layer, p,
                                            ledsPerLevel, aCnt, 0, getNumPixels(leds))
                       [] p.mode = mode_testpattern ->
                            FrameTestPattern(leds, pixelBuffer, ledsPerLevel,
                                             0, getNumPixels(leds))
                       [] OTHER -> pixelBuffer ]

\* what a call of loop() that traps in a division by zero has done to the
\* energy state before: a trap in a spark's random() comes after the flames
TrappedFrame(d, aStage) ==
  [ es  |-> IF aStage = "spark"
            THEN InjectFlame(EnergyState, params, ledsPerLevel, d.rf)
            ELSE EnergyState,
    buf |-> pixelBuffer ]

\* void loop(): one tick. A division by zero either traps, which ends the
\* program, or gives quotient 0 and lets the tick go on.
Loop(aMaxTicks, aOutcomes) ==
  /\ ~halted
  /\ ticks < aMaxTicks
  /\ \E clk \in ClockOutcomes(params),
        d \in (IF params.mode = mode_torch THEN aOutcomes ELSE {NoOutcome}),
        trap \in BOOLEAN :
       \E stage \in {DivStage(params, EnergyState, d)} :
         /\ trap => stage # "none"
         /\ \E ts \in {TickText(clk, trap /\ stage = "render")} :
            \E c \in {IF params.mode = mode_colorcycle /\ ~trap THEN U8(cnt + 1) ELSE cnt} :
            \E e \in {IF params.mode = mode_torch /\ ~trap THEN TickEnergy(d)
                      ELSE EnergyState} :
            \E r \in {IF trap THEN TrappedFrame(d, stage)
                      ELSE TickFrame(ts.textLayer, d, c, e)} :
              /\ SetTextState(ts)
              /\ SetEnergyState(r.es)
              /\ cnt' = c
              /\ pixelBuffer' = r.buf
              /\ spiOut' = IF trap THEN spiOut ELSE show(leds, r.buf)
         /\ halted' = trap
         /\ irqEnabled' = IF trap THEN irqEnabled ELSE IrqAfter(spiOut', irqEnabled)
         /\ lastMessage' = IF clk.due THEN clk.str ELSE lastMessage
         /\ ticksSinceMessage' =
              IF trap THEN (IF clk.due THEN 0 ELSE ticksSinceMessage)
              ELSE IF clk.due THEN 1
              ELSE IF ticksSinceMessage < 0 THEN ticksSinceMessage
              ELSE ticksSinceMessage + 1
         /\ ticks' = IF trap THEN ticks ELSE ticks + 1
         /\ lastOp' = Op(IF trap THEN "trap" ELSE "loop", 0, 0, params.mode, <<>>)
  /\ UNCHANGED <<leds, configVars, params, calls>>

\* the parameter strings sent: the text band moved onto the small grid and
\* scrolled one pixel per tick; a hot torch without sparks; the modes off,
\* lamp and colour cycle
TextCommand == << Pair("text_base_line", 0), Pair("cycles_per_px", 1) >>

HotCommand ==
  << Pair("side_rad", 255), Pair("up_rad", 255), Pair("flame_min", 255),
     Pair("flame_max", 255), Pair("spark_prob", 0) >>

TorchCommands ==
  { TextCommand, HotCommand, << Pair("mode", mode_off) >>,
    << Pair("mode", mode_lamp) >>, << Pair("mode", mode_colorcycle) >> }

\* the message injected while the modes are switched: "!"
TorchMessages == { <<33>> }

TorchInit == ProgramInit(GridLedsPerLevel, GridLevels)

TorchNext ==
  \/ \E aText \in TorchMessages : NewMessage(aText)
  \/ \E command \in TorchCommands : HandleParams(command)
  \/ Loop(MaxTicks, TorchOutcomes)

SpecTorch == TorchInit /\ [][TorchNext]_vars

-----------------------------------------------------------------------------
(* The torch as a lamp scrolling messages *)

\* handleParams("mode=3,cycles_per_px=<P>")
ScrollCommand(aCyclesPerPx) ==
  << Pair("mode", mode_lamp), Pair("cycles_per_px", aCyclesPerPx) >>

\* the messages injected: "!", "%41" (an escaped "A") and "A!"
ScrollMessages == { <<33>>, <<37, 52, 49>>, <<65, 33>> }

\* the state after setup() and one handleParams call that makes the torch a
\* lamp and sets the scroll speed, which then stays as it is
ScrollInit ==
  /\ TorchDriver("ws2812", GridLedsPerLevel, GridLevels, FALSE, FALSE, FALSE, FALSE)
  /\ \E aCyclesPerPx \in 1 .. MaxCyclesPerPx :
       ProgramState(GridLedsPerLevel, GridLevels, FALSE,
                    handleParams(DefaultParams, ScrollCommand(aCyclesPerPx)).p, 1)
  /\ lastOp = Op("handleParams", 0, 0, mode_torch, <<>>)

ScrollNext ==
  \/ \E aText \in ScrollMessages : NewMessage(aText)
  \/ Loop(MaxScrollTicks, {NoOutcome})

SpecScroll == ScrollInit /\ [][ScrollNext]_vars

-----------------------------------------------------------------------------
(* Claims about the torch's ticks *)

\* the cells of the energy grid
Cells == 0 .. ledsPerLevel * levels - 1

\* C5: with all coefficients in 0..255, no energy value of a torch tick is
\* obtained by wrap-around modulo 256: every addition to a cell's energy
\* saturates at 255. For a passive cell above the second row whose neighbours
\* lie in the grid, in a tick that injects no spark, the new energy is the
\* saturated sum of the retained heat and the heat received.
C5_EnergySaturates ==
  [][ ( /\ lastOp'.op = "loop"
        /\ params.mode = mode_torch
        /\ params.random_spark_probability = 0
        /\ \A k \in {"heat_cap", "up_rad", "side_rad", "spark_cap", "spark_tfr"} :
             params[k] \in 0 .. 255 )
      => \A i \in Cells :
           ( /\ i >= 2 * ledsPerLevel
             /\ i + 1 \in Cells
             /\ energyMode[i] = torch_passive
             /\ energyMode[i - ledsPerLevel] # torch_spark )
           => /\ currentEnergy'[i] \in 0 .. 255
              /\ nextEnergy'[i] =
                   Min(255, Shr(currentEnergy[i] * params.heat_cap, 8)
                            + Shr((currentEnergy[i - 1] + currentEnergy[i + 1])
                                  * params.side_rad, 9)
                            + Shr(currentEnergy[i - ledsPerLevel] * params.up_rad, 8))
    ]_vars

\* C7: if mode is 0 (off) at the start of a tick, then after that tick every
\* pixel of the pixel buffer is (0,0,0), whatever the energy grid, the text
\* layer, the message and the previous pixel buffer were.
C7_OffFrameIsBlack ==
  (lastOp.op = "loop" /\ lastOp.mode = mode_off) =>
    \A i \in 0 .. getNumPixels(leds) - 1 :
      pixelBuffer[i] = [red |-> 0, green |-> 0, blue |-> 0]

\* C7's case: the torch is switched off after ticks in torch mode: a message
\* is set, its text layer and the energy grid hold non-zero values
C7_Witness ==
  /\ lastOp.op = "loop" /\ lastOp.mode = mode_off
  /\ text # <<>>
  /\ \E i \in DOMAIN textLayer : textLayer[i] > 0
  /\ \E i \in Cells : currentEnergy[i] > 0
  /\ Len(spiOut) = 2 + 24 * getNumPixels(leds)

\* the pixel a text cell of brightness aOverlay is to give: the text colour
\* dimmed by (overlay x brightness) >> 8
TextPixel(aOverlay) ==
  LET b == U8(Shr(aOverlay * params.brightness, 8))
  IN  [red   |-> Shr(U8(Shr(params.red_text * b, 8)), 3),
       green |-> Shr(U8(Shr(params.green_text * b, 8)), 3),
       blue  |-> Shr(U8(Shr(params.blue_text * b, 8)), 3)]

\* C8: in each mode that composites text (lamp, torch, colour cycle), every
\* pixel inside the text band whose overlay value is non-zero is written with
\* the text colour dimmed by (overlay x brightness) >> 8, not with the mode's
\* own colour.
C8_TextColourInEveryMode ==
  (lastOp.op = "loop" /\ lastOp.mode \in {mode_lamp, mode_torch, mode_colorcycle}) =>
    \A i \in 0 .. getNumPixels(leds) - 1 :
      IsTextPixel(textLayer, params, ledsPerLevel, i)
        => pixelBuffer[i] = TextPixel(textLayer[i - TextStart(params, ledsPerLevel)])

\* C9: after newMessage(t), for any argument and from any prior state,
\* textPixelOffset = -ledsPerLevel, textCycleCount = 0 and repeatCount = 0,
\* and the previous message is fully replaced by the decoded t.
C9_NewMessageResets ==
  lastOp.op = "newMessage" =>
    /\ textPixelOffset = -ledsPerLevel
    /\ textCycleCount = 0
    /\ repeatCount = 0
    /\ text = DecodeFrom(lastOp.msg, 0, <<>>)
    /\ lastOp.msg = <<37, 52, 49>> => text = <<65>>
    /\ lastOp.msg = <<65, 33>> => text = <<65, 33>>

\* C9's case: newMessage("%41") called while an earlier message is on its
\* way through the band (the text layer holds lit cells of it)
C9_Witness ==
  /\ lastOp.op = "newMessage"
  /\ lastOp.msg = <<37, 52, 49>>
  /\ text = <<65>>
  /\ calls = MaxCalls
  /\ \E i \in DOMAIN textLayer : textLayer[i] > 0

\* the scroll width W of the message last injected
ScrollWidth == TotalTextPixels(DecodeFrom(lastMessage, 0, <<>>))

\* C10 as stated: after newMessage with a message of scroll width W and
\* cycles_per_px = P >= 1 unchanged, the first pass completes (repeatCount
\* goes from 0 to 1) exactly W x P ticks after the injection.
C10_PassTakesWTimesP ==
  (ticksSinceMessage >= 0 /\ params.cycles_per_px >= 1) =>
    /\ ticksSinceMessage < ScrollWidth * params.cycles_per_px => repeatCount = 0
    /\ ticksSinceMessage = ScrollWidth * params.cycles_per_px => repeatCount = 1

\* C10, amended: after newMessage with a message of scroll width W and
\* cycles_per_px = P >= 1 unchanged, the first pass completes (repeatCount
\* goes from 0 to 1) exactly (W + ledsPerLevel + 1) x P ticks after the
\* injection, the offset increasing by 1 every P ticks from -ledsPerLevel.
C10_PassTakesLeadInToo ==
  (ticksSinceMessage >= 0 /\ params.cycles_per_px >= 1) =>
    LET P == params.cycles_per_px
        T == (ScrollWidth + ledsPerLevel + 1) * P
        n == ticksSinceMessage
    IN  /\ n < T => /\ repeatCount = 0
                    /\ textPixelOffset = -ledsPerLevel + (n \div P)
                    /\ textCycleCount = n % P
        /\ n = T => /\ repeatCount = 1
                    /\ textPixelOffset = -ledsPerLevel
                    /\ textCycleCount = 0

\* C10's case: the first pass of "!" (W = 3) at two cycles per pixel has just
\* completed, 14 ticks after the injection
C10_Witness ==
  /\ lastOp.op = "loop"
  /\ lastMessage = <<33>>
  /\ params.cycles_per_px = 2
  /\ ticksSinceMessage = (ScrollWidth + ledsPerLevel + 1) * 2
  /\ repeatCount = 1

-----------------------------------------------------------------------------
(* The torch as a lamp repeating a message *)

\* the largest text_repeats of the repeating runs
MaxRepeats == 2

\* the number of ticks of a repeating run
MaxRepeatTicks == 18

\* text_intensity and fade_per_repeat of the repeating runs: the defaults, and
\* a fade that uses up the intensity in one pass
FadeSettings == { <<255, 15>>, <<20, 20>> }

\* handleParams("mode=3,cycles_per_px=1,text_repeats=<R>,text_intensity=<I>,
\* fade_per_repeat=<F>")
RepeatCommand(aRepeats, aIntensity, aFade) ==
  << Pair("mode", mode_lamp), Pair("cycles_per_px", 1), Pair("text_repeats", aRepeats),
     Pair("text_intensity", aIntensity), Pair("fade_per_repeat", aFade) >>

\* the message injected: "!"
RepeatMessages == { <<33>> }

\* the state after setup() and one handleParams call that makes the torch a
\* lamp and sets the repeats and the fading, which then stay as they are
RepeatInit ==
  /\ TorchDriver("ws2812", GridLedsPerLevel, GridLevels, FALSE, FALSE, FALSE, FALSE)
  /\ \E aRepeats \in 0 .. MaxRepeats, f \in FadeSettings :
       ProgramState(GridLedsPerLevel, GridLevels, FALSE,
                    handleParams(DefaultParams, RepeatCommand(aRepeats, f[1], f[2])).p, 1)
  /\ lastOp = Op("handleParams", 0, 0, mode_torch, <<>>)

RepeatNext ==
  \/ \E aText \in RepeatMessages : NewMessage(aText)
  \/ Loop(MaxRepeatTicks, {NoOutcome})

SpecRepeat == RepeatInit /\ [][RepeatNext]_vars

\* the ticks one pass of the message last injected takes
PassTicks == (ScrollWidth + ledsPerLevel + 1) * params.cycles_per_px

\* C11: with text_repeats = R > 0 unchanged, a message injected by newMessage
\* is shown for exactly R passes: it is the text of every tick of the first R
\* passes, it becomes empty at the end of the R-th pass and stays empty on
\* every later tick until the next newMessage.
C11_ShownForRPasses ==
  ( /\ ticksSinceMessage >= 0
    /\ params.text_repeats > 0
    /\ params.cycles_per_px >= 1
    /\ DecodeFrom(lastMessage, 0, <<>>) # <<>> ) =>
    LET n == ticksSinceMessage
        R == params.text_repeats
    IN  /\ n < R * PassTicks => /\ text = DecodeFrom(lastMessage, 0, <<>>)
                                /\ repeatCount = n \div PassTicks
        /\ n >= R * PassTicks => text = <<>>

\* C11's case: "!" with text_repeats = 2 has been shown for its two passes of
\* 7 ticks each and has been empty for the ticks since
C11_Witness ==
  /\ lastOp.op = "loop"
  /\ params.text_repeats = 2
  /\ lastMessage = <<33>>
  /\ ticksSinceMessage >= 2 * PassTicks + 2
  /\ text = <<>>

\* C12: for any text_intensity, fade_per_repeat and text_repeats, no tick
\* renders a message with a repeat count k for which text_intensity - k x
\* fade_per_repeat <= 0, and the peak brightness renderText uses never
\* increases from one tick of a message to the next (ticks that inject a clock
\* message aside).
C12_BrightnessNeverNonPositive ==
  [][ ( /\ lastOp'.op = "loop"
        /\ ticksSinceMessage' > 1
        /\ text # <<>> ) =>
      /\ params.text_intensity - repeatCount * params.fade_per_repeat > 0
      /\ text' # <<>> =>
           MaxBright([repeatCount |-> repeatCount'], params)
             <= MaxBright([repeatCount |-> repeatCount], params)
    ]_vars

-----------------------------------------------------------------------------
(* The torch with its default parameters showing a message *)

\* ledsPerLevel of the runs with default parameters: a band with two active
\* columns
WideLedsPerLevel == 4

\* the number of ticks of a run with default parameters: one pass of "A!"
MaxBandTicks == 76

\* the messages injected: "!" and "A!"
BandMessages == { <<33>>, <<65, 33>> }

\* the ticks draw no spark
BandOutcomes == { TickOutcome(100, 100, 0, 0, FALSE) }

BandInit == ProgramInit(WideLedsPerLevel, GridLevels)

\* one message is injected, at any tick
BandNext ==
  \/ \E aText \in BandMessages : ticksSinceMessage < 0 /\ NewMessage(aText)
  \/ Loop(MaxBandTicks, BandOutcomes)

SpecBand == BandInit /\ [][BandNext]_vars

\* the font columns of a message from left to right, each glyph followed by
\* its spacing columns
RECURSIVE MessageColumns(_)
MessageColumns(txt) ==
  IF txt = <<>> THEN <<>>
  ELSE fontGlyphs(glyphIndexForChar(Head(txt))).cols \o [s \in 1 .. glyphSpacing |-> 0]
       \o MessageColumns(Tail(txt))

\* the tick after newMessage in which message column c enters the band, at
\* the band's last active column ledsPerLevel - 3
EnterTick(c) == (c - (ledsPerLevel - 3) + ledsPerLevel) * params.cycles_per_px + 1

\* C13: after newMessage with a non-empty message and default parameters,
\* every tick of the first pass shows in the active columns of the band the
\* message columns at the current offset, left to right in message order, with
\* a non-zero textLayer value in each lit row, and nothing in the other band
\* columns; every column of the message has its tick before the pass
\* completes, at which it enters at the last active column.
C13_EveryColumnShown ==
  ( /\ lastOp.op = "loop"
    /\ params = DefaultParams
    /\ text # <<>>
    /\ ticksSinceMessage >= 1
    /\ ticksSinceMessage <= PassTicks ) =>
    LET cols == MessageColumns(DecodeFrom(lastMessage, 0, <<>>))
        o == -ledsPerLevel + ((ticksSinceMessage - 1) \div params.cycles_per_px)
    IN  /\ Len(cols) = ScrollWidth
        /\ \A x \in 0 .. ledsPerLevel - 1, glyphRow \in 0 .. rowsPerGlyph - 1 :
             /\ ( /\ x < ledsPerLevel - 2
                  /\ o + x \in 0 .. Len(cols) - 1
                  /\ (cols[o + x + 1] \div (2 ^ (6 - glyphRow))) % 2 = 1 )
                  => textLayer[glyphRow * ledsPerLevel + x] > 0
             /\ x >= ledsPerLevel - 2 => textLayer[glyphRow * ledsPerLevel + x] = 0
        /\ \A c \in 0 .. Len(cols) - 1 : EnterTick(c) \in 1 .. PassTicks

\* C13's case: the column of "!", the last glyph column of "A!", enters the
\* band in the first pass, its top row lit
C13_Witness ==
  /\ lastOp.op = "loop"
  /\ params = DefaultParams
  /\ lastMessage = <<65, 33>>
  /\ repeatCount = 0
  /\ ticksSinceMessage = EnterTick(7)
  /\ textLayer[ledsPerLevel - 3] > 0

-----------------------------------------------------------------------------
(* crossFade on its own *)

\* the faders and values crossFade is called with: the ends of the byte range,
\* the middle and values between
Faders == { 0, 1, 2, 64, 127, 128, 129, 200, 254, 255 }

FadeValues == { 0, 1, 2, 3, 100, 127, 128, 201, 254, 255 }

\* handleParams("fade_base=<b>")
FadeBaseCommand(aFadeBase) == << Pair("fade_base", aFadeBase) >>

\* the state after setup() and one handleParams call that sets fade_base
FadeInit ==
  /\ TorchDriver("ws2812", GridLedsPerLevel, GridLevels, FALSE, FALSE, FALSE, FALSE)
  /\ \E aFadeBase \in 0 .. 255 :
       ProgramState(GridLedsPerLevel, GridLevels, FALSE,
                    handleParams(DefaultParams, FadeBaseCommand(aFadeBase)).p, 1)
  /\ lastOp = Op("handleParams", 0, 0, mode_torch, <<>>)

\* crossFade(aFader, aValue, thisBright, nextBright): lastOp keeps the two
\* outputs as x and y and the two inputs as msg
CrossFade(aFader, aValue) ==
  /\ \E cf \in {crossFade(aFader, aValue, params.fade_base)} :
       lastOp' = Op("crossFade", cf.aOutputA, cf.aOutputB, params.mode, <<aFader, aValue>>)
  /\ UNCHANGED <<driverVars, programVars>>

FadeNext == \E aFader \in Faders, aValue \in FadeValues : CrossFade(aFader, aValue)

SpecFade == FadeInit /\ [][FadeNext]_vars

\* C14: for every fade_base in 0..255 and the sampled faders and values the outputs of crossFade
\* satisfy outputA + (outputB - base) = value with base = floor(value x
\* fade_base / 256), and both outputs lie in [base, value].
C14_CrossFadeSumsToValue ==
  lastOp.op = "crossFade" =>
    LET aValue == lastOp.msg[2]
        base == (aValue * params.fade_base) \div 256
    IN  /\ lastOp.x + (lastOp.y - base) = aValue
        /\ base <= lastOp.x /\ lastOp.x <= aValue
        /\ base <= lastOp.y /\ lastOp.y <= aValue

\* C14's case: half way through a fade of the full brightness with the default
\* fade_base the two outputs differ and lie strictly between base and value
C14_Witness ==
  /\ lastOp.op = "crossFade"
  /\ lastOp.msg = <<128, 255>>
  /\ params.fade_base = 140
  /\ lastOp.x = 197
  /\ lastOp.y = 197

-----------------------------------------------------------------------------
(* Parameter strings with zero divisors, values out of range and pieces
   without '=' *)

MaxParamCalls == 2

MaxParamTicks == 2

\* the parameter strings sent: a zero cycles_per_px; flame_max one below
\* flame_min, which makes random()'s range 0; values outside a byte for byte
\* parameters and for the brightness used as a byte; a piece without '=' at
\* the end of the string and before a well-formed pair
ParamCommands ==
  { << Pair("mode", mode_lamp), Pair("cycles_per_px", 0) >>,
    << Pair("flame_min", 2), Pair("flame_max", 1) >>,
    << Pair("mode", 256) >>,
    << Pair("fade_base", -1) >>,
    << Pair("spark_tfr", 300) >>,
    << Pair("mode", mode_lamp), Pair("brightness", 300) >>,
    << Pair("lamp_red", 7), NoEq("x") >>,
    << Pair("lamp_red", 7), NoEq("x"), Pair("lamp_blue", 9) >> }

ParamMessages == { <<33>> }

ParamInit == ProgramInit(GridLedsPerLevel, GridLevels)

ParamNext ==
  \/ \E aText \in ParamMessages : calls < MaxParamCalls /\ NewMessage(aText)
  \/ \E command \in ParamCommands : calls < MaxParamCalls /\ HandleParams(command)
  \/ Loop(MaxParamTicks, BandOutcomes)

SpecParams == ParamInit /\ [][ParamNext]_vars

\* C15: whatever parameters handleParams has set and whatever message was
\* injected, no tick evaluates a division by zero that ends the program: the
\* engine is never halted.
C15_NoDivisionByZero == ~halted /\ lastOp.op # "trap"

\* the bound of a byte nearest to val
NearestByte(val) == IF val < 0 THEN 0 ELSE IF val > 255 THEN 255 ELSE val

\* C16: after handleParams a byte parameter given a value outside 0..255 holds
\* the nearest bound of its range or its default, and a lamp frame sent with a
\* brightness above 255 is the frame of brightness 255.
C16_OutOfRangeClamped ==
  /\ lastOp.op = "handleParams" =>
       \A n \in 1 .. Len(lastOp.msg) :
         LET item == lastOp.msg[n]
         IN  (item.eq /\ item.key \in ByteParams /\ item.val \notin 0 .. 255) =>
               params[item.key] \in {NearestByte(item.val), DefaultParams[item.key]}
  /\ (lastOp.op = "loop" /\ params.mode = mode_lamp /\ params.brightness > 255) =>
       pixelBuffer = FrameLamp(leds, pixelBuffer, textLayer,
                               [params EXCEPT !.brightness = 255], ledsPerLevel,
                               0, getNumPixels(leds))

\* the index of the first piece of a command that holds no '=', 0 if none
FirstNoEq(command) ==
  IF \E n \in 1 .. Len(command) : ~command[n].eq
  THEN CHOOSE n \in 1 .. Len(command) :
         ~command[n].eq /\ \A m \in 1 .. n - 1 : command[m].eq
  ELSE 0

\* C17: a handleParams call whose k-th piece has no '=' applies the pairs
\* before the k-th and nothing after it.
C17_MalformedStopsParsing ==
  [][ (lastOp'.op = "handleParams" /\ FirstNoEq(lastOp'.msg) > 0) =>
        params' = handleParams(params,
                    SubSeq(lastOp'.msg, 1, FirstNoEq(lastOp'.msg) - 1)).p ]_vars

-----------------------------------------------------------------------------
(* The decoding of injected messages *)

MaxDecodeTicks == 6

\* the characters 0-9, A-F and a-f
HexDigits == (48 .. 57) \cup (65 .. 70) \cup (97 .. 102)

\* the value of a hexadecimal digit
HexValue(c) == IF c <= 57 THEN c - 48 ELSE IF c <= 70 THEN c - 55 ELSE c - 87

\* the second bytes of the six two-byte sequences newMessage remaps, in the
\* order of their codes 0x80..0x85
UmlautSeconds == << 132, 150, 156, 164, 182, 188 >>

\* messages that end inside a percent escape or after 0xC3
TruncatedMessages ==
  { <<37>>, <<195>>, <<65, 37>>, <<65, 37, 52>>, <<65, 195>>, <<65, 66, 37, 52>> }

\* the messages injected: every percent escape of two hexadecimal digits,
\* every single byte from 0x80, 0xC3 followed by every byte, the euro sign
\* (E2 82 AC) and an a-umlaut before "!", and the truncated messages
DecodeMessages ==
  { <<37, x, y>> : x \in HexDigits, y \in HexDigits }
  \cup { <<b>> : b \in 128 .. 255 }
  \cup { <<195, b>> : b \in 1 .. 255 }
  \cup { <<226, 130, 172>>, <<195, 164, 33>> }
  \cup TruncatedMessages

DecodeInit == ProgramInit(GridLedsPerLevel, GridLevels)

\* one message, injected before any tick or after some
DecodeNext ==
  \/ \E aText \in DecodeMessages : ticksSinceMessage < 0 /\ NewMessage(aText)
  \/ Loop(MaxDecodeTicks, BandOutcomes)

SpecDecode == DecodeInit /\ [][DecodeNext]_vars

\* C18: newMessage decodes a percent escape of two hexadecimal digits of
\* either case to the single byte 16 x value(X) + value(Y), and hexToInt gives
\* each of the two digits its value.
C18_PercentEscapeDecoded ==
  ( /\ lastOp.op = "newMessage"
    /\ Len(lastOp.msg) = 3
    /\ lastOp.msg[1] = 37
    /\ lastOp.msg[2] \in HexDigits
    /\ lastOp.msg[3] \in HexDigits ) =>
      /\ hexToInt(lastOp.msg[2]) = HexValue(lastOp.msg[2])
      /\ hexToInt(lastOp.msg[3]) = HexValue(lastOp.msg[3])
      /\ text = << 16 * HexValue(lastOp.msg[2]) + HexValue(lastOp.msg[3]) >>

\* C19: newMessage replaces 0xC3 and one of the six second bytes by the code
\* 0x80..0x85 (glyph 96..101); 0xC3 before any other byte, and every other
\* byte from 0x80, is shown with the fallback glyph 95; the characters after
\* such a byte are kept.
C19_NonAsciiFallback ==
  lastOp.op = "newMessage" =>
    LET msg == lastOp.msg
    IN  /\ \A n \in 1 .. 6 :
             msg = <<195, UmlautSeconds[n]>> =>
               text = <<127 + n>> /\ glyphIndexForChar(text[1]) = 95 + n
        /\ ( /\ Len(msg) = 2
             /\ msg[1] = 195
             /\ \A n \in 1 .. 6 : msg[2] # UmlautSeconds[n] ) =>
               Len(text) = 1 /\ glyphIndexForChar(text[1]) = 95
        /\ msg = <<195, 164, 33>> => text = <<131, 33>>
        /\ (\A n \in 1 .. Len(msg) : msg[n] \notin {37, 195}) =>
             /\ Len(text) = Len(msg)
             /\ \A n \in 1 .. Len(msg) :
                  msg[n] >= 128 => glyphIndexForChar(text[n]) = 95

\* the index of the first '%' or 0xC3 of a message that holds one
SequenceStart(msg) ==
  CHOOSE n \in 1 .. Len(msg) :
    msg[n] \in {37, 195} /\ \A m \in 1 .. n - 1 : msg[m] \notin {37, 195}

\* C20: for a message that ends inside a percent escape or after 0xC3,
\* newMessage keeps exactly the characters before the incomplete sequence,
\* returns 1 and resets the scroll state for a fresh pass.
C20_TruncatedMessageKept ==
  (lastOp.op = "newMessage" /\ lastOp.msg \in TruncatedMessages) =>
    /\ text = SubSeq(lastOp.msg, 1, SequenceStart(lastOp.msg) - 1)
    /\ lastOp.x = 1
    /\ textPixelOffset = -ledsPerLevel
    /\ textCycleCount = 0
    /\ repeatCount = 0

\* C20's case: "AB%4" injected after six ticks, which had moved the scroll
\* state on, leaves "AB" and the reset scroll state
C20_Witness ==
  /\ lastOp.op = "newMessage"
  /\ lastOp.msg = <<65, 66, 37, 52>>
  /\ ticks = 6
  /\ text = <<65, 66>>
  /\ lastOp.x = 1
  /\ textPixelOffset = -ledsPerLevel
  /\ repeatCount = 0

-----------------------------------------------------------------------------
(* Dimmed colours written and read back *)

MaxDimLeds == 2

\* the colours and brightness setColorDimmed is called with: every grey with
\* every brightness, and two colours whose channels differ
DimInputs ==
  { <<c, c, c, b>> : c \in 0 .. 255, b \in 0 .. 255 }
  \cup { <<255, 129, 17, 129>>, <<8, 64, 200, 255>> }

\* a single row of MaxDimLeds pixels, the buffer cleared
DimInit ==
  /\ leds = P44Construct("ws2812", MaxDimLeds, 0, FALSE, FALSE, FALSE, FALSE, 1)
  /\ pixelBuffer = ClearedBuffer(leds)
  /\ spiOut = <<>>
  /\ irqEnabled = TRUE
  /\ ProgramSetup(1, 1, FALSE)
  /\ lastOp = Op("construct", 0, 0, 0, <<>>)

\* leds.setColorDimmed(aLedNumber, c[1], c[2], c[3], c[4]) on the last pixel
\* of the row; each call is followed by the getColorXY that reads it back
SetColorDimmed(aLedNumber, c) ==
  /\ pixelBuffer' = setColorDimmed(leds, pixelBuffer, aLedNumber, c[1], c[2], c[3], c[4])
  /\ lastOp' = Op("setColorDimmed", aLedNumber, 0, 0, c)
  /\ UNCHANGED <<leds, spiOut, irqEnabled, programVars>>

\* leds.getColorXY(aX, aY, r, g, b): lastOp keeps the three outputs as msg
GetColorXY(aX, aY) ==
  /\ lastOp.op = "setColorDimmed"
  /\ lastOp' = Op("getColorXY", aX, aY, 0, getColorXY(leds, pixelBuffer, aX, aY, <<0, 0, 0>>))
  /\ UNCHANGED <<driverVars, programVars>>

DimNext ==
  \/ /\ lastOp.op # "setColorDimmed"
     /\ \E c \in DimInputs : SetColorDimmed(getNumPixels(leds) - 1, c)
  \/ GetColorXY(getNumPixels(leds) - 1, 0)

SpecDim == DimInit /\ [][DimNext]_vars

\* floor(floor(c x b / 256) / 8)
DimmedStored(c, b) == ((c * b) \div 256) \div 8

\* C21: setColorDimmed stores floor(floor(c x b / 256) / 8), a value in 0..31,
\* in each channel of the pixel, and getColorXY returns 8 times the stored
\* values.
C21_DimmedStoredAndRead ==
  /\ lastOp.op = "setColorDimmed" =>
       LET pix == pixelBuffer[lastOp.x]
           c == lastOp.msg
       IN  /\ pix.red = DimmedStored(c[1], c[4])
           /\ pix.green = DimmedStored(c[2], c[4])
           /\ pix.blue = DimmedStored(c[3], c[4])
           /\ {pix.red, pix.green, pix.blue} \subseteq 0 .. 31
  /\ lastOp.op = "getColorXY" =>
       LET pix == pixelBuffer[lastOp.x]
       IN  lastOp.msg = << 8 * pix.red, 8 * pix.green, 8 * pix.blue >>

\* C21's case: the colour (255, 129, 17) dimmed by 129 is stored as (16, 8, 1)
\* in the last pixel and read back as (128, 64, 8)
C21_Witness ==
  /\ lastOp.op = "getColorXY"
  /\ lastOp.x = getNumPixels(leds) - 1
  /\ pixelBuffer[lastOp.x] = [red |-> 16, green |-> 8, blue |-> 1]
  /\ lastOp.msg = <<128, 64, 8>>

-----------------------------------------------------------------------------
(* The torch tick taken in its three calls: injectRandom(), calcNextEnergy(),
   calcNextColors() *)

MaxEnergyTicks == 3

\* the parameter strings sent before the torch burns: none; a faster spark
\* transfer with some heat kept; sparks with probability 100 and the faster
\* transfer; no sparks; the torch upside down; flames of any energy
EnergyCommands ==
  { << >>,
    << Pair("flame_min", 0), Pair("flame_max", 255) >>,
    << Pair("spark_tfr", 130), Pair("heat_cap", 128) >>,
    << Pair("spark_prob", 100), Pair("spark_tfr", 130) >>,
    << Pair("spark_prob", 0) >>,
    << Pair("upside_down", 1) >> }

\* what rand() gives in a tick: no spark test passes (every test draws 100);
\* every spark test draws 0; only the first cell of the second row draws 0
EnergyOutcomes ==
  { TickOutcome(100, 100, 0, 0, FALSE),
    TickOutcome(0, 0, 100, 0, FALSE),
    [TickOutcome(30, 100, 7, 0, FALSE) EXCEPT !.rp[ledsPerLevel] = 0] }

\* the bytes an out-of-bounds read of an energy array gives
OobSamples == { 0, 255 }

\* whether loop() is between two of its calls
InTick == lastOp.op \in {"injectRandom", "calcNextEnergy"}

\* the state after setup() and one handleParams call
EnergyInit ==
  /\ TorchDriver("ws2812", GridLedsPerLevel, GridLevels, FALSE, FALSE, FALSE, FALSE)
  /\ \E command \in EnergyCommands :
       /\ ProgramState(GridLedsPerLevel, GridLevels, FALSE,
                       handleParams(DefaultParams, command).p, 1)
       /\ lastOp = Op("handleParams", 0, 0, mode_torch, command)

\* loop() in mode_torch up to and including injectRandom(): the clock check,
\* renderText() and the bottom row's flames and the second row's sparks
InjectRandom(d) ==
  /\ ~halted
  /\ ~InTick
  /\ ticks < MaxEnergyTicks
  /\ params.mode = mode_torch
  /\ DivStage(params, EnergyState, d) = "none"
  /\ \E clk \in ClockOutcomes(params) :
       /\ SetTextState(TickText(clk, FALSE))
       /\ lastMessage' = IF clk.due THEN clk.str ELSE lastMessage
       /\ ticksSinceMessage' =
            IF clk.due THEN 1
            ELSE IF ticksSinceMessage < 0 THEN ticksSinceMessage
            ELSE ticksSinceMessage + 1
  /\ SetEnergyState(injectRandom(EnergyState, params, ledsPerLevel, d.rf, d.rp, d.rs))
  /\ lastOp' = Op("injectRandom", 0, 0, params.mode, <<>>)
  /\ UNCHANGED <<driverVars, configVars, params, cnt, halted, ticks, calls>>

\* calcNextEnergy() of the tick
CalcNextEnergy(oob) ==
  /\ lastOp.op = "injectRandom"
  /\ SetEnergyState(calcNextEnergy(EnergyState, params, ledsPerLevel, levels, oob))
  /\ lastOp' = Op("calcNextEnergy", 0, 0, params.mode, <<>>)
  /\ UNCHANGED <<driverVars, configVars, params, textVars, cnt, halted, lastMessage,
                 ticksSinceMessage, ticks, calls>>

\* calcNextColors() and leds.show(), which end the tick
CalcNextColors(oob, aHit) ==
  /\ lastOp.op = "calcNextEnergy"
  /\ \E r \in {calcNextColors(EnergyState, pixelBuffer, leds, textLayer, params,
                              ledsPerLevel, ledsPerLevel * levels, oob, aHit)} :
       /\ SetEnergyState(r.es)
       /\ pixelBuffer' = r.buf
       /\ spiOut' = show(leds, r.buf)
  /\ irqEnabled' = IrqAfter(spiOut', irqEnabled)
  /\ ticks' = ticks + 1
  /\ lastOp' = Op("loop", 0, 0, params.mode, <<>>)
  /\ UNCHANGED <<leds, configVars, params, textVars, cnt, halted, lastMessage,
                 ticksSinceMessage, calls>>

EnergyNext ==
  \/ \E d \in EnergyOutcomes : InjectRandom(d)
  \/ \E oob \in OobSamples : CalcNextEnergy(oob)
  \/ \E oob \in OobSamples, aHit \in BOOLEAN : CalcNextColors(oob, aHit)

SpecEnergy == EnergyInit /\ [][EnergyNext]_vars

\* C22: after setup() and after every handleParams call whose string holds a
\* spark_prob pair every cell has currentEnergy 0, nextEnergy 0 and mode
\* passive; a handleParams call without a spark_prob pair changes no cell.
C22_ResetOnSparkProb ==
  [][ /\ lastOp.op = "setup" =>
           \A i \in Cells :
             currentEnergy[i] = 0 /\ nextEnergy[i] = 0 /\ energyMode[i] = torch_passive
      /\ lastOp'.op = "handleParams" =>
           IF \E n \in 1 .. Len(lastOp'.msg) : lastOp'.msg[n].key = "spark_prob"
           THEN \A i \in Cells :
                  currentEnergy'[i] = 0 /\ nextEnergy'[i] = 0
                  /\ energyMode'[i] = torch_passive
           ELSE UNCHANGED energyVars ]_vars

\* C22's case: a torch that has burnt, its bottom row lit, is reset by a
\* handleParams call that sets spark_prob
C22_Witness ==
  /\ lastOp.op = "handleParams"
  /\ \E n \in 1 .. Len(lastOp.msg) : lastOp.msg[n].key = "spark_prob"
  /\ ticks = 2
  /\ pixelBuffer[0].red > 0
  /\ \A i \in Cells : currentEnergy[i] = 0 /\ energyMode[i] = torch_passive

\* the cells above the bottom row that are neither the first nor the last
\* cell of the grid
InnerCells == { i \in Cells : i >= ledsPerLevel /\ i < ledsPerLevel * levels - 1 }

\* floor(e x heat_cap / 256) + floor((L + R) x side_rad / 512) + floor(B x
\* up_rad / 256) for cell i, the energies being those of ce
PassiveSum(ce, i) ==
  (ce[i] * params.heat_cap) \div 256
  + ((ce[i - 1] + ce[i + 1]) * params.side_rad) \div 512
  + (ce[i - ledsPerLevel] * params.up_rad) \div 256

LeftInRow(i) ==
  (i \div ledsPerLevel) * ledsPerLevel + (((i % ledsPerLevel) - 1) % ledsPerLevel)

RightInRow(i) ==
  (i \div ledsPerLevel) * ledsPerLevel + (((i % ledsPerLevel) + 1) % ledsPerLevel)

\* C24: in the passive rule of calcNextEnergy the grid is a horizontal
\* cylinder: the side neighbours of a cell are the cells left and right of it
\* in its own row, the left neighbour of column 0 being the last column of the
\* row and the right neighbour of the last column being column 0.
C24_CylinderNeighbours ==
  [][ lastOp'.op = "calcNextEnergy" =>
        \A i \in Cells :
          ( /\ i >= ledsPerLevel
            /\ energyMode[i] = torch_passive
            /\ energyMode'[i] = torch_passive ) =>
              nextEnergy'[i] =
                increase(U8(Shr(currentEnergy[i] * params.heat_cap, 8)),
                         Shr((currentEnergy[LeftInRow(i)] + currentEnergy[RightInRow(i)])
                             * params.side_rad, 9)
                         + Shr(currentEnergy[i - ledsPerLevel] * params.up_rad, 8),
                         255) ]_vars

\* C25: when calcNextEnergy processes a spark cell below the top row, the
\* cell above it is marked spark-receiving for the next tick: in this tick the
\* cell above, if it was passive, is still computed by the passive rule.
C25_MarkedForNextTick ==
  [][ lastOp'.op = "calcNextEnergy" =>
        \A i \in Cells :
          ( /\ energyMode[i] = torch_spark
            /\ i \div ledsPerLevel < levels - 1
            /\ energyMode[i + ledsPerLevel] = torch_passive ) =>
              /\ energyMode'[i + ledsPerLevel] = torch_spark_temp
              /\ \E oob \in OobSamples :
                   nextEnergy'[i + ledsPerLevel] =
                     PassiveNext(currentEnergy[i + ledsPerLevel], currentEnergy, params,
                                 i + ledsPerLevel, ledsPerLevel, oob) ]_vars

TorchTickDone == lastOp.op = "loop" /\ params.mode = mode_torch

\* C27: at every tick boundary in torch mode every spark-receiving cell has a
\* spark cell directly below it.
C27_SparkBelowReceiver ==
  TorchTickDone =>
    \A c \in Cells :
      energyMode[c] = torch_spark_temp =>
        c >= ledsPerLevel /\ energyMode[c - ledsPerLevel] = torch_spark

-----------------------------------------------------------------------------
(* A spark chain on a tall, narrow torch *)

ChainLedsPerLevel == 2

ChainLevels == 4

MaxChainTicks == 5

\* handleParams("spark_tfr=100,spark_cap=256"): sparks that hand on their
\* energy in three ticks and lose none of it
ChainCommand == << Pair("spark_tfr", 100), Pair("spark_cap", 256) >>

\* the state after setup() and the handleParams call
ChainInit ==
  /\ TorchDriver("ws2812", ChainLedsPerLevel, ChainLevels, FALSE, FALSE, FALSE, FALSE)
  /\ ProgramState(ChainLedsPerLevel, ChainLevels, FALSE,
                  handleParams(DefaultParams, ChainCommand).p, 1)
  /\ lastOp = Op("handleParams", 0, 0, mode_torch, ChainCommand)

ChainNext == Loop(MaxChainTicks, EnergyOutcomes)

SpecChain == ChainInit /\ [][ChainNext]_vars

\* the cells of the bottom row
BottomRow == 0 .. ledsPerLevel - 1

\* C28: in every torch tick, with flame_min <= flame_max, injectRandom leaves
\* every bottom-row cell in no-op mode with an energy in [flame_min,
\* flame_max]; calcNextEnergy finds the cell in no-op mode and copies its
\* energy, and the energy after the tick is the injected one.
C28_BottomRowInjected ==
  [][ params.flame_min <= params.flame_max =>
        \A i \in BottomRow :
          /\ lastOp'.op = "injectRandom" =>
               /\ energyMode'[i] = torch_nop
               /\ currentEnergy'[i] \in params.flame_min .. params.flame_max
          /\ lastOp'.op = "calcNextEnergy" =>
               /\ energyMode[i] = torch_nop
               /\ energyMode'[i] = torch_nop
               /\ nextEnergy'[i] = currentEnergy[i]
               /\ currentEnergy'[i] = currentEnergy[i]
          /\ (lastOp.op = "calcNextEnergy" /\ lastOp'.op = "loop") =>
               /\ currentEnergy'[i] = currentEnergy[i]
               /\ energyMode'[i] = torch_nop ]_vars

\* C28's case: after the second tick the bottom row holds the flames
\* injected in it, 130, whatever it held after the first
C28_Witness ==
  /\ lastOp.op = "loop"
  /\ ticks = 2
  /\ params.flame_min = 100
  /\ \A i \in BottomRow : currentEnergy[i] = 130 /\ energyMode[i] = torch_nop
  /\ pixelBuffer[0] # pixelBuffer[ledsPerLevel]

\* the cells of the second row
SecondRow == ledsPerLevel .. 2 * ledsPerLevel - 1

\* C29: the spark probability is a percent chance: with spark_prob = 0
\* injectRandom turns no second-row cell into a spark, and with spark_prob =
\* 100 it turns every second-row cell that is not a spark into a spark with an
\* energy in [spark_min, spark_max], on every torch tick.
C29_SparkPercent ==
  [][ lastOp'.op = "injectRandom" =>
        \A i \in SecondRow :
          /\ (params.random_spark_probability = 0 /\ energyMode[i] # torch_spark) =>
               energyMode'[i] # torch_spark
          /\ (params.random_spark_probability = 100 /\ energyMode[i] # torch_spark) =>
               /\ energyMode'[i] = torch_spark
               /\ currentEnergy'[i] \in params.spark_min .. params.spark_max ]_vars

\* the stored pixel calcNextColors gives pixel i for a cell of energy e
EnergyPixel(i, e) ==
  LET c == EnergyColor(params, e)
  IN  setColorDimmed(leds, pixelBuffer, i, c.r, c.g, c.b, params.brightness)[i]

\* C30: calcNextColors, with upside_down set or not, reads and writes the
\* energy arrays only inside their bounds and samples every cell by exactly
\* one pixel: with no text shown, nextEnergy is left as it is, every cell's
\* currentEnergy becomes its nextEnergy and every pixel shows the energy of a
\* cell.
C30_EnergyIndexInBounds ==
  [][ ( /\ lastOp.op = "calcNextEnergy"
        /\ lastOp'.op = "loop"
        /\ \A k \in DOMAIN textLayer : textLayer[k] = 0 ) =>
          /\ nextEnergy' = nextEnergy
          /\ currentEnergy' = nextEnergy
          /\ \A i \in Cells :
               \E j \in Cells : pixelBuffer'[i] = EnergyPixel(i, nextEnergy[j]) ]_vars

-----------------------------------------------------------------------------
(* Claims about the text band's rendering *)

\* S(k): the message column at which character k (counted from 0) starts,
\* the widths and spacings of the characters before it summed up
ColumnStart(txt, k) == TotalTextPixels(SubSeq(txt, 1, k))

\* the glyph column the message has at message column o: column o - S(k) of
\* the glyph of the character k with S(k) <= o < S(k+1), empty in its
\* spacing, and empty outside 0 .. W-1
OwnedColumn(txt, o) ==
  IF o < 0 \/ o >= ColumnStart(txt, Len(txt)) THEN 0
  ELSE LET k == CHOOSE c \in 0 .. Len(txt) - 1 :
                  ColumnStart(txt, c) <= o /\ o < ColumnStart(txt, c + 1)
           j == o - ColumnStart(txt, k)
           glyph == fontGlyphs(glyphIndexForChar(txt[k + 1]))
       IN  IF j >= glyph.width THEN 0 ELSE glyph.cols[j + 1]

\* the value renderText leaves in the text layer's cell of band column x and
\* row glyphRow when the band columns show the font columns col[x]: thisBright
\* in a lit row, and nextBright added, up to maxBright, where the column to
\* the right is lit
BandCell(col, x, glyphRow, thisBright, nextBright, maxBright) ==
  LET own == IF ColumnBit(col[x], glyphRow) THEN thisBright ELSE 0
  IN  IF x + 1 \in DOMAIN col /\ ColumnBit(col[x + 1], glyphRow)
      THEN increase(own, nextBright, maxBright)
      ELSE own

\* C31: every renderText call fills band column x < ledsPerLevel-2 from the
\* message column o = textPixelOffset + x, which is column o - S(k) of the
\* glyph of the one character k with S(k) <= o < S(k+1), empty in the
\* character's spacing; for o < 0, o >= W and x >= ledsPerLevel-2 the band
\* column is empty and gives no overlay.
C31_GlyphColumnLookup ==
  [][ ( /\ lastOp'.op = "loop"
        /\ params.clock_interval = 0
        /\ ~mirrorText ) =>
        LET cf == crossFade(U8(CDiv(255 * textCycleCount, params.cycles_per_px)),
                            MaxBright(TextState, params), params.fade_base)
            col == [x \in 0 .. ledsPerLevel - 1 |->
                      IF x < ledsPerLevel - 2
                      THEN OwnedColumn(text, textPixelOffset + x) ELSE 0]
        IN  /\ \A x \in 0 .. ledsPerLevel - 1, glyphRow \in 0 .. rowsPerGlyph - 1 :
                 textLayer'[glyphRow * ledsPerLevel + x] =
                   BandCell(col, x, glyphRow, cf.aOutputA, cf.aOutputB,
                            MaxBright(TextState, params))
            /\ \A x \in 0 .. ledsPerLevel - 1 :
                 ( \/ x >= ledsPerLevel - 2
                   \/ textPixelOffset + x < 0
                   \/ textPixelOffset + x >= TotalTextPixels(text) ) => col[x] = 0 ]_vars

\* C31's case: a tick has rendered "A!" with the spacing column of "A"
\* (message column 6) in band column 0 and the column of "!" (message column
\* 7 = S(1), character 1, glyph column 0) in band column 1
C31_Witness ==
  /\ lastOp.op = "loop"
  /\ text = <<65, 33>>
  /\ textPixelOffset = 6
  /\ textCycleCount = 1
  /\ \A glyphRow \in 0 .. rowsPerGlyph - 1 :
       /\ textLayer[glyphRow * ledsPerLevel + 1] > 0
            <=> ColumnBit(fontGlyphs(glyphIndexForChar(33)).cols[1], glyphRow)
       /\ textLayer[glyphRow * ledsPerLevel + 2] = 0
  /\ \E glyphRow \in 0 .. rowsPerGlyph - 1 : textLayer[glyphRow * ledsPerLevel + 1] > 0

-----------------------------------------------------------------------------
(* The torch as a lamp fading a message over its repeats *)

\* the number of ticks of a fading run: three passes of "A" on the wide band
MaxBrightTicks == 74

\* text_intensity and fade_per_repeat of the fading runs: the defaults, and
\* fades that use up the intensity in the second and in the third pass
BrightSettings == { <<255, 15>>, <<20, 15>>, <<200, 100>> }

\* handleParams("mode=3,cycles_per_px=2,text_repeats=<R>,text_intensity=<I>,
\* fade_per_repeat=<F>")
BrightCommand(aRepeats, aIntensity, aFade) ==
  << Pair("mode", mode_lamp), Pair("cycles_per_px", 2), Pair("text_repeats", aRepeats),
     Pair("text_intensity", aIntensity), Pair("fade_per_repeat", aFade) >>

\* the message injected: "A", whose glyph has rows lit in adjacent columns
BrightMessages == { <<65>> }

\* the state after setup() and one handleParams call that makes the torch a
\* lamp and sets the fading, which then stays as it is; the message is repeated
\* without end or shown once
BrightInit ==
  /\ TorchDriver("ws2812", WideLedsPerLevel, GridLevels, FALSE, FALSE, FALSE, FALSE)
  /\ \E aRepeats \in 0 .. 1, f \in BrightSettings :
       ProgramState(WideLedsPerLevel, GridLevels, FALSE,
                    handleParams(DefaultParams, BrightCommand(aRepeats, f[1], f[2])).p, 1)
  /\ lastOp = Op("handleParams", 0, 0, mode_torch, <<>>)

\* one message is injected, at any tick
BrightNext ==
  \/ \E aText \in BrightMessages : ticksSinceMessage < 0 /\ NewMessage(aText)
  \/ Loop(MaxBrightTicks, {NoOutcome})

SpecBright == BrightInit /\ [][BrightNext]_vars

\* C32: after every renderText call every textLayer cell is at most the
\* call's maxBright = text_intensity - repeatCount x fade_per_repeat, where
\* that value is within 0 .. 255, and when the message is empty, before the
\* call or by it, every textLayer cell is 0.
C32_LayerBoundedByMaxBright ==
  [][ ( /\ lastOp'.op = "loop"
        /\ params.clock_interval = 0 ) =>
        LET mb == params.text_intensity - repeatCount * params.fade_per_repeat
        IN  /\ mb \in 0 .. 255 =>
                 \A k \in DOMAIN textLayer' : textLayer'[k] <= mb
            /\ text' = <<>> =>
                 \A k \in DOMAIN textLayer' : textLayer'[k] = 0 ]_vars

\* C32's case: in the second pass of "A" with text_intensity 20 and
\* fade_per_repeat 15 a cell lit in two adjacent columns holds maxBright = 5,
\* the sum of the two columns' shares cut to it
C32_Witness ==
  /\ lastOp.op = "loop"
  /\ text = <<65>>
  /\ params.text_intensity = 20
  /\ params.fade_per_repeat = 15
  /\ repeatCount = 1
  /\ textPixelOffset = 1
  /\ textCycleCount = 1
  /\ textLayer[3 * ledsPerLevel] = 5
  /\ \A k \in DOMAIN textLayer : textLayer[k] <= 5

-----------------------------------------------------------------------------
(* The torch burning with flames of one energy and set colours *)

\* the energy of the bottom row's flames: none, below and at the first step
\* of energymap, in its middle, its last step, and around the limit 250
FlameSamples == { 0, 1, 8, 100, 248, 250, 251, 255 }

\* bias and coefficient of red, green and blue: the defaults; the largest
\* bytes; a red coefficient above 255
ColourSettings ==
  { <<10, 180, 0, 145, 0, 0>>, <<255, 255, 200, 255, 0, 255>>, <<10, 300, 0, 145, 0, 0>> }

\* handleParams("flame_min=<e>,flame_max=<e>,red_bias=..,red_energy=..,
\* green_bias=..,green_energy=..,blue_bias=..,blue_energy=..")
ColourCommand(e, c) ==
  << Pair("flame_min", e), Pair("flame_max", e),
     Pair("red_bias", c[1]), Pair("red_energy", c[2]),
     Pair("green_bias", c[3]), Pair("green_energy", c[4]),
     Pair("blue_bias", c[5]), Pair("blue_energy", c[6]) >>

\* the state after setup() and one handleParams call
ColourInit ==
  /\ TorchDriver("ws2812", GridLedsPerLevel, GridLevels, FALSE, FALSE, FALSE, FALSE)
  /\ \E e \in FlameSamples, c \in ColourSettings :
       /\ ProgramState(GridLedsPerLevel, GridLevels, FALSE,
                       handleParams(DefaultParams, ColourCommand(e, c)).p, 1)
       /\ lastOp = Op("handleParams", 0, 0, mode_torch, ColourCommand(e, c))

SpecColour == ColourInit /\ [][EnergyNext]_vars

\* min(255, bias + floor(energymap[e>>3] x coefficient / 256))
ChannelOfEnergy(bias, coefficient, e) ==
  Min(255, bias + ((EnergyMapSeq[(e \div 8) + 1] * coefficient) \div 256))

\* the colour of a pixel of energy e: the background for e = 0, the
\* overheated colour above 250, else each channel from its bias and
\* coefficient
ColourOfEnergy(e) ==
  IF e = 0 THEN <<params.red_bg, params.green_bg, params.blue_bg>>
  ELSE IF e > 250 THEN <<170, 170, e>>
  ELSE << ChannelOfEnergy(params.red_bias, params.red_energy, e),
          ChannelOfEnergy(params.green_bias, params.green_energy, e),
          ChannelOfEnergy(params.blue_bias, params.blue_energy, e) >>

\* C33: in torch mode calcNextColors passes to the driver, for a pixel
\* without text overlay of energy e, the background colour for e = 0, the
\* colour (170, 170, e) for e > 250, and else for each channel min(255, bias +
\* floor(energymap[e>>3] x coefficient / 256)), whatever bias and coefficient
\* handleParams has set.
C33_ColourFormula ==
  [][ ( /\ lastOp.op = "calcNextEnergy"
        /\ lastOp'.op = "loop"
        /\ params.upside_down = 0 ) =>
        \A i \in Cells :
          ~IsTextPixel(textLayer, params, ledsPerLevel, i) =>
            LET c == ColourOfEnergy(nextEnergy[i])
            IN  pixelBuffer'[i] =
                  setColorDimmed(leds, pixelBuffer, i, c[1], c[2], c[3],
                                 params.brightness)[i] ]_vars

-----------------------------------------------------------------------------
(* The torch receiving parameter strings of every key *)

\* the handleParams calls of a run
MaxKeyCalls == 1

\* the ticks of a run
MaxKeyTicks == 2

\* the parameter strings sent: every recognized key on its own with the value
\* 3 (the format "%H" for clock_fmt); keys that are not recognized, on their
\* own, before and between recognized pairs
KeyCommands ==
  { << Pair(key, 3) >> : key \in RecognizedKeys \ {"clock_fmt"} }
  \cup { << FmtPair("%H") >>,
         << Pair("colour", 7) >>,
         << Pair("cheer_brightness", 7), Pair("lamp_red", 9) >>,
         << Pair("up_rad", 60), Pair("Mode", 3), Pair("spark_prob", 50),
            Pair("up_rad", 61) >> }

KeyInit == ProgramInit(GridLedsPerLevel, GridLevels)

KeyNext ==
  \/ \E command \in KeyCommands : calls < MaxKeyCalls /\ HandleParams(command)
  \/ Loop(MaxKeyTicks, BandOutcomes)

SpecKeys == KeyInit /\ [][KeyNext]_vars

\* the last pair of a command that names the parameter, 0 if none does
LastPairFor(command, name) ==
  LET named == { n \in 1 .. Len(command) :
                   /\ command[n].eq
                   /\ command[n].key \in RecognizedKeys
                   /\ KeyParam(command[n].key) = name }
  IN  IF named = {} THEN 0
      ELSE CHOOSE n \in named : \A m \in named : m <= n

\* C34: a handleParams call of well-formed pairs changes no parameter but
\* those its recognized keys name, each of which takes the value of the last
\* pair naming it, whatever keys stand before it; it changes neither the text
\* state nor the pixel buffer, and the energy grid only by the reset of a
\* spark_prob pair. A call of unrecognized keys only changes nothing.
C34_OnlyNamedParameterChanges ==
  [][ ( /\ lastOp'.op = "handleParams"
        /\ \A n \in 1 .. Len(lastOp'.msg) : lastOp'.msg[n].eq ) =>
        LET command == lastOp'.msg
        IN  /\ \A name \in DOMAIN params :
                 LET n == LastPairFor(command, name)
                 IN  params'[name] =
                       IF n = 0 THEN params[name]
                       ELSE IF name = "clock_fmt" THEN command[n].str
                       ELSE StoreParam(params, name, command[n].val)[name]
            /\ UNCHANGED <<text, textPixelOffset, textCycleCount, repeatCount,
                           textLayer, pixelBuffer>>
            /\ IF LastPairFor(command, "random_spark_probability") = 0
               THEN UNCHANGED <<currentEnergy, nextEnergy, energyMode>>
               ELSE \A i \in Cells :
                      /\ currentEnergy'[i] = 0
                      /\ nextEnergy'[i] = 0
                      /\ energyMode'[i] = torch_passive ]_vars

\* C34's case: after a tick that lit the flames, the call with the
\* unrecognized key "Mode" between recognized pairs has set up_rad to the
\* last pair's 61 and spark_prob to 50, reset the grid and left the mode
C34_Witness ==
  /\ lastOp.op = "handleParams"
  /\ Len(lastOp.msg) = 4
  /\ ticks = 1
  /\ pixelBuffer[0].red > 0
  /\ params.up_rad = 61
  /\ params.random_spark_probability = 50
  /\ params.mode = mode_torch
  /\ \A i \in Cells : currentEnergy[i] = 0

\* the mode calcNextEnergy finds in cell i when its loops come to it: the
\* cells before it have been processed and have written energyMode
ModeWhenProcessed(i, oob) ==
  CellLoop([ne |-> nextEnergy, em |-> energyMode], currentEnergy, params, 0, i,
           ledsPerLevel, levels, oob).em[i]

\* the indices calcNextEnergy uses for cell i in mode m: i itself; for a
\* spark below the top row the cell above; for a spark_temp the cell below;
\* for a passive cell i-1, i+1 and the cell below
IndicesUsed(i, m) ==
  {i} \cup
  ( IF m = torch_spark
    THEN (IF i \div ledsPerLevel < levels - 1 THEN {i + ledsPerLevel} ELSE {})
    ELSE IF m = torch_spark_temp THEN {i - ledsPerLevel}
    ELSE IF m = torch_passive THEN {i - 1, i + 1, i - ledsPerLevel}
    ELSE {} )

\* C35: every index calcNextEnergy uses to read currentEnergy or to read or
\* write energyMode or nextEnergy (i, i-1, i+1, i-ledsPerLevel,
\* i+ledsPerLevel) lies in 0 .. numLeds-1, in every call of every tick.
C35_EnergyAccessInBounds ==
  [][ ( /\ lastOp.op = "injectRandom"
        /\ lastOp'.op = "calcNextEnergy" ) =>
        \A i \in Cells, oob \in OobSamples :
          IndicesUsed(i, ModeWhenProcessed(i, oob)) \subseteq Cells ]_vars

-----------------------------------------------------------------------------
(* The torch burning without end *)

\* ledsPerLevel of the torch that burns without end: one column
NarrowLedsPerLevel == 1

\* the tick number up to which the endless run counts its ticks
MaxForeverTicks == 3

\* the parameter strings sent before the torch burns: the empty text's
\* cycle count kept at 0, with the default spark transfer and a faster one
ForeverCommands ==
  { << Pair("cycles_per_px", 1) >>,
    << Pair("cycles_per_px", 1), Pair("spark_tfr", 130) >> }

\* the state after setup() and one handleParams call
ForeverInit ==
  /\ TorchDriver("ws2812", NarrowLedsPerLevel, GridLevels, FALSE, FALSE, FALSE, FALSE)
  /\ \E command \in ForeverCommands :
       /\ ProgramState(NarrowLedsPerLevel, GridLevels, FALSE,
                       handleParams(DefaultParams, command).p, 1)
       /\ lastOp = Op("handleParams", 0, 0, mode_torch, command)

\* what rand() gives in a tick of the endless run: no spark test passes, or
\* every spark test draws 0; the flames and the sparks' energies are the same
ForeverOutcomes == { TickOutcome(100, 100, 0, 0, FALSE), TickOutcome(100, 0, 0, 0, FALSE) }

\* the counters renderText() keeps counting while no message is shown, which
\* have no bound but that of an int, are followed up to MaxForeverTicks
CountedText(ts) ==
  [ts EXCEPT !.textPixelOffset = Min(ts.textPixelOffset, MaxForeverTicks),
             !.repeatCount = Min(ts.repeatCount, MaxForeverTicks)]

\* void loop() in mode_torch, called again and again: one whole tick with
\* the draws d; ticks counts the calls up to MaxForeverTicks
TorchTick(d) ==
  /\ ~halted
  /\ params.mode = mode_torch
  /\ DivStage(params, EnergyState, d) = "none"
  /\ \E clk \in ClockOutcomes(params) :
       \E ts \in {CountedText(TickText(clk, FALSE))} :
       \E e \in {TickEnergy(d)} :
       \E r \in {TickFrame(ts.textLayer, d, cnt, e)} :
       \E out \in {show(leds, r.buf)} :
         /\ SetTextState(ts)
         /\ SetEnergyState(r.es)
         /\ pixelBuffer' = r.buf
         /\ spiOut' = out
         /\ irqEnabled' = IrqAfter(out, irqEnabled)
         /\ lastMessage' = IF clk.due THEN clk.str ELSE lastMessage
         /\ ticksSinceMessage' =
              IF clk.due THEN 1
              ELSE IF ticksSinceMessage < 0 THEN ticksSinceMessage
              ELSE ticksSinceMessage + 1
  /\ ticks' = Min(ticks + 1, MaxForeverTicks)
  /\ lastOp' = Op("loop", 0, 0, params.mode, <<>>)
  /\ UNCHANGED <<leds, configVars, params, cnt, halted, calls>>

ForeverNext == \E d \in ForeverOutcomes : TorchTick(d)

\* loop() is called again as soon as it returns: the ticks never stop
SpecForever == ForeverInit /\ [][ForeverNext]_vars /\ WF_vars(ForeverNext)

\* C36: with spark_tfr >= 1, no message shown and the torch's ticks going on
\* forever, every cell that is in spark mode, in whatever row, is in passive
\* mode at some later tick.
C36_SparkReturnsToPassive ==
  \A i \in 0 .. NarrowLedsPerLevel * GridLevels - 1 :
    (energyMode[i] = torch_spark) ~> (energyMode[i] = torch_passive)

-----------------------------------------------------------------------------
(* Claims about the text overlay and the energy simulation *)

\* the text layer with nothing to show
NoTextLayer == [k \in DOMAIN textLayer |-> 0]

\* C37: the text overlay does not influence the energy simulation: every
\* torch tick leaves the energy grid (currentEnergy, nextEnergy, energyMode)
\* that the same tick with the same random draws leaves when no text is
\* shown, and after every torch tick currentEnergy[i] = nextEnergy[i] for
\* every cell i.
C37_TextDoesNotInfluenceEnergy ==
  [][ ( /\ lastOp'.op = "loop"
        /\ params.mode = mode_torch
        /\ params.upside_down = 0 ) =>
        /\ \E d \in TorchOutcomes :
             EnergyState' = calcNextColors(TickEnergy(d), pixelBuffer, leds, NoTextLayer,
                                           params, ledsPerLevel, ledsPerLevel * levels,
                                           d.oob, d.hit).es
        /\ \A i \in Cells : currentEnergy'[i] = nextEnergy'[i] ]_vars

\* C38: whatever handleParams calls set cycles_per_px to values >= 1 between
\* the ticks, every renderText call starts with textCycleCount <
\* cycles_per_px, so that the fader 255 x textCycleCount / cycles_per_px it
\* passes to crossFade lies within 0 .. 255 before its conversion to a byte.
C38_FaderWithinByte ==
  [][ ( /\ lastOp'.op = "loop"
        /\ params.clock_interval = 0
        /\ params.cycles_per_px >= 1 ) =>
        /\ textCycleCount < params.cycles_per_px
        /\ CDiv(255 * textCycleCount, params.cycles_per_px) \in 0 .. 255 ]_vars

=============================================================================
